---- MODULE Spec2Model ----
(***************************************************************************)
(* Model of the nba-injury-alert change-detection and notification         *)
(* pipeline: the delivery stage (NotificationService), the HTTP fetcher    *)
(* with its retry logic (HttpFetcher, NBAInjuryFetcher) and the poll loops *)
(* (NBAInjuryPoller.start_polling, poll_for_new_report), the diff engine   *)
(* and normalization (InjuryReportProcessor), the notification router with *)
(* its quiet-hours test, the channel senders' send_batch and the          *)
(* WebSocket endpoint's connection registry.                               *)
(*                                                                         *)
(* The storage backend is a transactional store: a committed transaction   *)
(* is one atomic step, a query sees committed rows only, and the unique    *)
(* constraint on injury_report.report_hash rejects a second insert.        *)
(***************************************************************************)
EXTENDS Integers, Sequences, FiniteSets, TLC

\* ------------------------------------------------------------------------
\* Bounds of the model
\* ------------------------------------------------------------------------
MaxChanges == 2        \* StatusChange rows ever stored
MaxInvocations == 2    \* process_status_changes invocations over all callers
MaxCycles == 2         \* poll cycles per poll loop
MaxStatuses == 2       \* records in one list of player statuses
MaxDiffRuns == 2       \* compute_diff calls on one pair of lists
MaxSnapshots == 2      \* new reports handed to on_new_report
MaxSettings == 2       \* NotificationSetting rows of one user
MaxBatch == 2          \* notifications handed to one send_batch call
MaxConnections == 3    \* connections opened on the /ws/{client_id} endpoint
MaxLoops == 3          \* start_polling calls made on one poller

\* ------------------------------------------------------------------------
\* Generic helpers
\* ------------------------------------------------------------------------
None == <<>>

RECURSIVE ConcatAll(_)
ConcatAll(ss) == IF ss = <<>> THEN <<>> ELSE Head(ss) \o ConcatAll(Tail(ss))

RECURSIVE SortedSeq(_)
SortedSeq(S) ==
    IF S = {} THEN <<>>
    ELSE LET m == CHOOSE x \in S : \A y \in S : x <= y
         IN  <<m>> \o SortedSeq(S \ {m})

Range(s) == {s[i] : i \in 1..Len(s)}

\* ------------------------------------------------------------------------
\* Delivery stage: subscribers, players and configured channels
\* ------------------------------------------------------------------------
Callers == {"poll", "check"}

Channels == <<"email", "push", "websocket">>

PlayerIds == {1, 2}

Player == [p \in PlayerIds |-> IF p = 1 THEN [name |-> "A", team |-> "LAL"]
                               ELSE [name |-> "B", team |-> "BOS"]]

UserIds == <<1, 2, 3>>

\* A string is the sequence of its characters.
Str2200 == <<"2", "2", ":", "0", "0">>
Str0600 == <<"0", "6", ":", "0", "0">>
Str0900 == <<"0", "9", ":", "0", "0">>
Str1700 == <<"1", "7", ":", "0", "0">>

\* Values of quiet_hours_start and quiet_hours_end.  The column is a nullable
\* String and update_user stores what it is given: "9:5", "24:00", "12:60",
\* "2200", "22:00:00", "2x:00", "-1:00".
QuietHoursValues ==
    {None, Str2200, Str0600, Str0900, Str1700,
     <<"9", ":", "5">>,
     <<"2", "4", ":", "0", "0">>,
     <<"1", "2", ":", "6", "0">>,
     <<"2", "2", "0", "0">>,
     <<"2", "2", ":", "0", "0", ":", "0", "0">>,
     <<"2", "x", ":", "0", "0">>,
     <<"-", "1", ":", "0", "0">>}

\* A NotificationSetting row: scoped to a player (player_id > 0) or a team.
Setting(player_id, team, e, p, w) ==
    [player_id |-> player_id, team |-> team,
     email_enabled |-> e, push_enabled |-> p, web_enabled |-> w]

User ==
    [u \in Range(UserIds) |->
       CASE u = 1 -> [is_active |-> TRUE,
                      email_notifications |-> FALSE,
                      push_notifications |-> FALSE,
                      web_notifications |-> TRUE,
                      quiet_hours_start |-> Str2200,
                      quiet_hours_end |-> Str0600,
                      notification_settings |->
                         <<Setting(1, "", TRUE, FALSE, TRUE)>>]
         [] u = 2 -> [is_active |-> TRUE,
                      email_notifications |-> TRUE,
                      push_notifications |-> TRUE,
                      web_notifications |-> TRUE,
                      quiet_hours_start |-> None,
                      quiet_hours_end |-> None,
                      notification_settings |->
                         <<Setting(0, "BOS", FALSE, TRUE, TRUE),
                           Setting(1, "", TRUE, TRUE, FALSE)>>]
         [] u = 3 -> [is_active |-> FALSE,
                      email_notifications |-> TRUE,
                      push_notifications |-> TRUE,
                      web_notifications |-> TRUE,
                      quiet_hours_start |-> None,
                      quiet_hours_end |-> None,
                      notification_settings |->
                         <<Setting(1, "", TRUE, TRUE, TRUE)>>]]

\* A time of day: <<minutes after midnight, 1 if its seconds or microseconds
\* are not zero else 0>>.  time(hour, minute) has none.
Time(hour, minute) == <<hour * 60 + minute, 0>>

\* Wall-clock times of day at which the service runs.
TimesOfDay == {Time(12, 0), Time(23, 30)}

\* Values of datetime.now().time(): on the minute, or within it.
ClockTimes ==
    {<<h * 60 + m, f>> : h \in {0, 6, 9, 12, 17, 20, 22, 23}, m \in {0, 5, 30},
                         f \in {0, 1}}

VARIABLES
    status_change,          \* StatusChange table: id = index
    clock,                  \* datetime.now(), advancing with every commit
    notifiers,              \* channels whose notifier the service holds
    time_of_day,            \* datetime.now().time()
    psc_pc,                 \* position of each process_status_changes call
    psc_ids,                \* its argument: the ids of `changes`
    db_changes,             \* the rows its query selected
    notifications_to_send,  \* the payloads it built
    results,                \* the results _send_notifications collected
    next_channel,           \* index of the next channel batch
    psc_return,             \* its return value: notifications_sent (-1: none yet)
    invocations,            \* number of invocations each caller has started
    sends,                  \* send attempts per <<change, user, channel>>: 0, 1, 2 = more
    skipped                 \* <<change, user>> pairs the router skipped for quiet hours

VARIABLES
    injury_report,          \* InjuryReport table: id = index
    max_retries,            \* HttpFetcher.max_retries
    running,                \* NBAInjuryPoller._running
    f_pc,                   \* position of each poll loop
    retry_count,            \* retry_count of the _make_request in progress
    requests,               \* the requests it has issued so far
    last_response,          \* the response to the latest of them
    mr_out,                 \* how _make_request ended
    fetch_out,              \* how fetch() ended
    data,                   \* response.json() of the fetch in progress
    sleep_for,              \* duration of the loop's sleep
    callback_out,           \* how on_new_report ended in the poller's cycle
    cycles                  \* poll cycles started by each loop

psc_vars == <<status_change, clock, notifiers, time_of_day, psc_pc, psc_ids, db_changes,
              notifications_to_send, results, next_channel, psc_return,
              invocations, sends, skipped>>

fetch_vars == <<injury_report, max_retries, running, f_pc, retry_count,
                requests, last_response, mr_out, fetch_out, data, sleep_for,
                callback_out, cycles>>

VARIABLES
    current_statuses,       \* current_data["player_statuses"]
    previous_statuses,      \* previous_data["player_statuses"]
    changes,                \* the changes compute_diff built last
    diff_runs,              \* compute_diff calls made on the two lists
    processed               \* player statuses of the reports on_new_report got

diff_vars == <<current_statuses, previous_statuses, changes, diff_runs,
               processed>>

VARIABLES
    user_table,             \* User rows with their notification_settings
    in_quiet_hours          \* return value of the last _is_in_quiet_hours call

router_vars == <<user_table, in_quiet_hours>>

VARIABLES
    batch_channel,          \* the notifier whose send_batch runs
    batch_input,            \* its argument: the notifications
    active_connections,     \* WebSocketNotifier.active_connections (client ids)
    batch_results,          \* results, the list send_batch is building
    send_outcomes,          \* what each send_notification call did, in order
    batch_pc,               \* "idle", "sending" or "returned"
    websockets,             \* active_connections[client_id] when the endpoint
                            \* stored it: the connection's number, else 0
    ws_client,              \* client_id of each /ws/{client_id} connection
    ws_pc                   \* position of each connection's handler

batch_vars == <<batch_channel, batch_input, active_connections, batch_results,
                send_outcomes, batch_pc, websockets, ws_client, ws_pc>>

VARIABLES
    report_players,         \* report_data["players"] of the report processed
    player_statuses,        \* what _extract_player_statuses returned
    process_out,            \* how process() ended
    injury_status,          \* InjuryStatus rows, in insertion order
    process_calls           \* process() calls so far: the latest report's id

extract_vars == <<report_players, player_statuses, process_out,
                  injury_status, process_calls>>

VARIABLES
    loop_pc,                \* position of each start_polling call
    stop_asked              \* the calls that were running at a stop_polling

loop_vars == <<loop_pc, stop_asked>>

VARIABLES
    call_time,              \* now = datetime.now() in poll_for_new_report
    requested,              \* its arguments <<hour, minute>>
    target_time,            \* the target time it computed
    waits                   \* whether it sleeps before its first poll

target_vars == <<call_time, requested, target_time, waits>>

vars == <<psc_vars, fetch_vars, diff_vars, router_vars, batch_vars,
          extract_vars, loop_vars, target_vars>>

\* ------------------------------------------------------------------------
\* Notification router (NotificationService.process_status_changes, the
\* part that builds notifications_to_send)
\* ------------------------------------------------------------------------
\* str.split(":")
RECURSIVE Split(_, _)
Split(s, sep) ==
    IF \A i \in 1..Len(s) : s[i] # sep THEN <<s>>
    ELSE LET k == CHOOSE i \in 1..Len(s) :
                      s[i] = sep /\ \A j \in 1..(i - 1) : s[j] # sep
         IN  <<SubSeq(s, 1, k - 1)>> \o Split(SubSeq(s, k + 1, Len(s)), sep)

Digits == <<"0", "1", "2", "3", "4", "5", "6", "7", "8", "9">>

DigitValue(c) == (CHOOSE i \in 1..Len(Digits) : Digits[i] = c) - 1

\* int() strips the white space around its argument ...
RECURSIVE Strip(_)
Strip(s) ==
    IF s = <<>> THEN s
    ELSE IF Head(s) = " " THEN Strip(Tail(s))
    ELSE IF s[Len(s)] = " " THEN Strip(SubSeq(s, 1, Len(s) - 1))
    ELSE s

\* ... and takes an optional sign followed by one or more digits.
Signed(s) == s # <<>> /\ Head(s) \in {"+", "-"}

Unsigned(s) == IF Signed(s) THEN Tail(s) ELSE s

RECURSIVE Decimal(_)
Decimal(ds) ==
    IF ds = <<>> THEN 0
    ELSE 10 * Decimal(SubSeq(ds, 1, Len(ds) - 1)) + DigitValue(ds[Len(ds)])

\* int(s) raises ValueError
IntRaises(s) ==
    LET ds == Unsigned(Strip(s))
    IN  ds = <<>> \/ \E i \in 1..Len(ds) : ds[i] \notin Range(Digits)

IntOf(s) ==
    LET t == Strip(s)
    IN  IF Signed(t) /\ Head(t) = "-" THEN 0 - Decimal(Unsigned(t))
        ELSE Decimal(Unsigned(t))

\* The parse raised ValueError: no time of day.
ParseError == <<-1, 0>>

\* hour, minute = map(int, s.split(":")); time(hour, minute): the unpacking
\* raises ValueError unless there are exactly two parts, int() when a part is
\* no integer literal, time() when hour or minute is out of range.
ParseTime(s) ==
    LET parts == Split(s, ":")
    IN  IF Len(parts) # 2 THEN ParseError
        ELSE IF IntRaises(parts[1]) \/ IntRaises(parts[2]) THEN ParseError
        ELSE IF IntOf(parts[1]) \notin 0..23 \/ IntOf(parts[2]) \notin 0..59
        THEN ParseError
        ELSE Time(IntOf(parts[1]), IntOf(parts[2]))

\* a <= b on times of day
TimeLE(a, b) == a[1] < b[1] \/ (a[1] = b[1] /\ a[2] <= b[2])

\* The midnight-spanning branch joined with `and`.
InWindow_WrapAnd(start_time, end_time, now) ==
    IF TimeLE(start_time, end_time)
    THEN TimeLE(start_time, now) /\ TimeLE(now, end_time)
    ELSE TimeLE(start_time, now) /\ TimeLE(now, end_time)

InWindow(start_time, end_time, now) ==
    IF TimeLE(start_time, end_time)
    THEN TimeLE(start_time, now) /\ TimeLE(now, end_time)
    ELSE TimeLE(start_time, now) \/ TimeLE(now, end_time)

\* An except clause that answers True.
OnParseError_Suppress == TRUE

\* except (ValueError, AttributeError): return False
OnParseError == FALSE

\* `not user.quiet_hours_start`: None and "" alike
Falsy(s) == s = None

IsInQuietHours(u, now) ==
    IF Falsy(user_table[u].quiet_hours_start)
          \/ Falsy(user_table[u].quiet_hours_end)
    THEN FALSE
    ELSE LET start_time == ParseTime(user_table[u].quiet_hours_start)
             end_time == ParseTime(user_table[u].quiet_hours_end)
         IN  IF start_time = ParseError \/ end_time = ParseError
             THEN OnParseError
             ELSE InWindow(start_time, end_time, now)

SettingMatches(ns, player_id) ==
    \/ ns.player_id = player_id
    \/ ns.team = Player[player_id].team

\* The query without its is_active filter.
UsersToNotify_Inactive(player_id) ==
    LET Wanted(u) ==
            \E i \in 1..Len(user_table[u].notification_settings) :
                SettingMatches(user_table[u].notification_settings[i], player_id)
    IN  SelectSeq(UserIds, Wanted)

\* The join's rows without the de-duplication Query applies to a single
\* entity: a user once per matching setting.
UsersToNotify_PerSetting(player_id) ==
    LET Matching(u) ==
            LET Match(ns) == SettingMatches(ns, player_id)
            IN  SelectSeq(user_table[u].notification_settings, Match)
        Rows(u) == IF user_table[u].is_active
                   THEN [i \in 1..Len(Matching(u)) |-> u]
                   ELSE <<>>
    IN  ConcatAll([i \in 1..Len(UserIds) |-> Rows(UserIds[i])])

\* session.query(User).join(NotificationSetting, ...).filter(is_active)
UsersToNotify(player_id) ==
    LET Wanted(u) ==
            /\ user_table[u].is_active
            /\ \E i \in 1..Len(user_table[u].notification_settings) :
                   SettingMatches(user_table[u].notification_settings[i], player_id)
    IN  SelectSeq(UserIds, Wanted)

Payload(channel, u, change_id) ==
    [channel |-> channel, user_id |-> u, change_id |-> change_id]

\* A router that skips nobody.
SkipsUser_Never(u, now) == FALSE

\* if self._is_in_quiet_hours(user): continue
SkipsUser(u, now) == IsInQuietHours(u, now)

UserNotifications(change_id, player_id, u, now, configured) ==
    IF SkipsUser(u, now) THEN <<>>
    ELSE
      LET Match(ns) == SettingMatches(ns, player_id)
          matching == SelectSeq(user_table[u].notification_settings, Match)
          email_enabled == IF matching # <<>> THEN Head(matching).email_enabled
                           ELSE user_table[u].email_notifications
          push_enabled == IF matching # <<>> THEN Head(matching).push_enabled
                          ELSE user_table[u].push_notifications
          web_enabled == IF matching # <<>> THEN Head(matching).web_enabled
                         ELSE user_table[u].web_notifications
      IN  (IF email_enabled /\ "email" \in configured
           THEN <<Payload("email", u, change_id)>> ELSE <<>>)
          \o (IF push_enabled /\ "push" \in configured
              THEN <<Payload("push", u, change_id)>> ELSE <<>>)
          \o (IF web_enabled /\ "websocket" \in configured
              THEN <<Payload("websocket", u, change_id)>> ELSE <<>>)

ChangeNotifications(change_id, player_id, now, configured) ==
    LET users == UsersToNotify(player_id)
    IN  ConcatAll([i \in 1..Len(users) |->
                     UserNotifications(change_id, player_id, users[i], now,
                                       configured)])

BuildNotifications(rows, selected, now, configured) ==
    LET ids == SortedSeq(selected)
    IN  ConcatAll([i \in 1..Len(ids) |->
                     ChangeNotifications(ids[i], rows[ids[i]].player_id, now,
                                         configured)])

\* The <<change, user>> pairs for which the loop over users took its
\* `continue`: the user is one the query returned for the change's player
\* and _is_in_quiet_hours(user) held.
SkippedUsers(rows, selected, now) ==
    {<<i, u>> \in selected \X Range(UserIds) :
        /\ u \in Range(UsersToNotify(rows[i].player_id))
        /\ SkipsUser(u, now)}

\* The query without its notification_sent filter.
UndeliveredChanges_Unfiltered(rows, ids) ==
    {i \in ids : i \in 1..Len(rows)}

\* The query of process_status_changes: of the requested ids, the rows whose
\* notification_sent is still false.
UndeliveredChanges(rows, ids) ==
    {i \in ids : i \in 1..Len(rows) /\ rows[i].notification_sent = FALSE}

\* ------------------------------------------------------------------------
\* Delivery fan-out (NotificationService._send_notifications)
\* ------------------------------------------------------------------------
Batch(notifications, k) ==
    LET InChannel(n) == n.channel = Channels[k]
    IN  SelectSeq(notifications, InChannel)

\* First channel at or after k whose batch is sent (non-empty and configured);
\* Len(Channels) + 1 when there is none.
NextBatch(notifications, configured, k) ==
    LET cand == {j \in k..Len(Channels) :
                    /\ Batch(notifications, j) # <<>>
                    /\ Channels[j] \in configured}
    IN  IF cand = {} THEN Len(Channels) + 1
        ELSE CHOOSE j \in cand : \A h \in cand : j <= h

SendKey(n) == <<n.change_id, n.user_id, n.channel>>

SendKeys == (1..MaxChanges) \X Range(UserIds) \X Range(Channels)

BatchResults(batch, ok) ==
    [i \in 1..Len(batch) |->
        [success |-> i \in ok, channel |-> batch[i].channel,
         recipient |-> batch[i].user_id]]

\* ------------------------------------------------------------------------
\* Delivery stage: actions
\* ------------------------------------------------------------------------
NewStatusChange(player_id, report_id) ==
    [player_id |-> player_id, report_id |-> report_id,
     notification_sent |-> FALSE, notification_date |-> 0]

\* InjuryReportProcessor._store_status_changes: one transaction storing a row
\* per detected change of the report report_id.
StoreStatusChanges(players, report_id) ==
    /\ Len(players) >= 1
    /\ Len(status_change) + Len(players) <= MaxChanges
    /\ status_change' = status_change \o
           [i \in 1..Len(players) |-> NewStatusChange(players[i], report_id)]
    /\ UNCHANGED <<clock, notifiers, time_of_day, psc_pc, psc_ids, db_changes,
                   notifications_to_send, results, next_channel, psc_return,
                   invocations, sends, skipped>>
    /\ UNCHANGED fetch_vars
    /\ UNCHANGED router_vars
    /\ UNCHANGED batch_vars
    /\ UNCHANGED extract_vars
    /\ UNCHANGED loop_vars
    /\ UNCHANGED target_vars
    /\ UNCHANGED diff_vars

Started(count) == count["poll"] + count["check"]

NoReturn == [notifications_sent |-> -1]

\* {"success": True, "notifications_sent": len(results), "results": results}
Returned(final_results) == [notifications_sent |-> Len(final_results)]

\* The marking loop leaving after its first row.
MarkNotified_FirstOnly(rows, selected, now) ==
    [i \in 1..Len(rows) |->
        IF i \in selected /\ \A j \in selected : i <= j
        THEN [rows[i] EXCEPT !.notification_sent = TRUE,
                             !.notification_date = now]
        ELSE rows[i]]

MarkNotified(rows, selected, now) ==
    [i \in 1..Len(rows) |->
        IF i \in selected
        THEN [rows[i] EXCEPT !.notification_sent = TRUE,
                             !.notification_date = now]
        ELSE rows[i]]

\* The tail of process_status_changes, run without suspension once
\* _send_notifications has returned: mark every selected row, commit, return
\* the number of results.
PSC_Finish(p, final_results) ==
    /\ status_change' = MarkNotified(status_change, db_changes[p], clock)
    /\ clock' = clock + 1
    /\ psc_return' = [psc_return EXCEPT ![p] = Returned(final_results)]
    /\ psc_pc' = [psc_pc EXCEPT ![p] = "returned"]
    /\ results' = [results EXCEPT ![p] = <<>>]
    /\ notifications_to_send' = [notifications_to_send EXCEPT ![p] = <<>>]
    /\ next_channel' = [next_channel EXCEPT ![p] = 1]
    /\ db_changes' = [db_changes EXCEPT ![p] = {}]

\* process_status_changes up to its first suspension: the query, the early
\* return, and the router building notifications_to_send.  When no channel
\* batch is to be sent, _send_notifications returns without suspending and the
\* call runs to its end.
PSC_Begin(p, ids) ==
    /\ psc_pc[p] \in {"idle", "returned"}
    /\ Started(invocations) < MaxInvocations
    /\ invocations' = [invocations EXCEPT ![p] = @ + 1]
    /\ psc_ids' = [psc_ids EXCEPT ![p] = ids]
    /\ skipped' = skipped \cup
           SkippedUsers(status_change, UndeliveredChanges(status_change, ids),
                        time_of_day)
    /\ LET selected == UndeliveredChanges(status_change, ids)
           built == BuildNotifications(status_change, selected, time_of_day,
                                      notifiers)
           first == NextBatch(built, notifiers, 1)
       IN  IF selected = {}
              THEN /\ psc_pc' = [psc_pc EXCEPT ![p] = "returned"]
                   /\ psc_return' = [psc_return EXCEPT ![p] = Returned(<<>>)]
                   /\ UNCHANGED <<status_change, clock, results, db_changes,
                                  notifications_to_send, next_channel>>
              ELSE IF first > Len(Channels)
              THEN /\ status_change' = MarkNotified(status_change, selected, clock)
                   /\ clock' = clock + 1
                   /\ psc_return' = [psc_return EXCEPT ![p] = Returned(<<>>)]
                   /\ psc_pc' = [psc_pc EXCEPT ![p] = "returned"]
                   /\ UNCHANGED <<results, db_changes, notifications_to_send,
                                  next_channel>>
              ELSE /\ psc_pc' = [psc_pc EXCEPT ![p] = "sending"]
                   /\ db_changes' = [db_changes EXCEPT ![p] = selected]
                   /\ psc_return' = [psc_return EXCEPT ![p] = NoReturn]
                   /\ notifications_to_send' =
                          [notifications_to_send EXCEPT ![p] = built]
                   /\ next_channel' = [next_channel EXCEPT ![p] = first]
                   /\ UNCHANGED <<status_change, clock, results>>
    /\ UNCHANGED <<notifiers, time_of_day, sends>>
    /\ UNCHANGED fetch_vars
    /\ UNCHANGED router_vars
    /\ UNCHANGED batch_vars
    /\ UNCHANGED extract_vars
    /\ UNCHANGED loop_vars
    /\ UNCHANGED target_vars
    /\ UNCHANGED diff_vars

\* One channel's send_batch inside _send_notifications: every notification of
\* the batch is attempted, those in ok succeed; when the batch call raises,
\* _send_notifications logs it and extends results with nothing.  After the
\* last batch the call runs to its end.
PSC_SendBatch(p, ok, raises) ==
    /\ psc_pc[p] = "sending"
    /\ LET batch == Batch(notifications_to_send[p], next_channel[p])
           following == NextBatch(notifications_to_send[p], notifiers,
                                  next_channel[p] + 1)
           Attempts(k) == Cardinality({i \in 1..Len(batch) : SendKey(batch[i]) = k})
           extended == IF raises THEN results[p]
                       ELSE results[p] \o BatchResults(batch, ok)
       IN  /\ ok \subseteq 1..Len(batch)
           /\ sends' = [k \in SendKeys |->
                  IF sends[k] + Attempts(k) > 2 THEN 2 ELSE sends[k] + Attempts(k)]
           /\ IF following > Len(Channels)
              THEN PSC_Finish(p, extended)
              ELSE /\ results' = [results EXCEPT ![p] = extended]
                   /\ next_channel' = [next_channel EXCEPT ![p] = following]
                   /\ UNCHANGED <<status_change, clock, psc_pc, psc_return,
                                  notifications_to_send, db_changes>>
    /\ UNCHANGED <<notifiers, time_of_day, psc_ids, invocations, skipped>>
    /\ UNCHANGED fetch_vars
    /\ UNCHANGED router_vars
    /\ UNCHANGED batch_vars
    /\ UNCHANGED extract_vars
    /\ UNCHANGED loop_vars
    /\ UNCHANGED target_vars
    /\ UNCHANGED diff_vars

\* ------------------------------------------------------------------------
\* Source client: HttpFetcher._make_request and NBAInjuryFetcher.fetch
\* ------------------------------------------------------------------------
Fetchers == {"poller", "oneshot"}

SettingsMaxRetries == 3
PollInterval == 1
DefaultRetryAfter == 60

\* self.max_retries = max_retries or settings.fetcher.max_retries
EffectiveMaxRetries(arg) == IF arg = 0 THEN SettingsMaxRetries ELSE arg

\* Constructor arguments: 0 stands for both None and 0.
MaxRetriesArgs == {0, 1, 2}

\* A URL is its sequence of segments; an absolute one starts with the scheme.
BaseUrl == <<"https:", "stats.nba.com", "stats">>
InjuryReportEndpoint == <<"injuryreport">>

IsAbsolute(url) == url # <<>> /\ Head(url) \in {"http:", "https:"}

\* url = f"{self.base_url.rstrip('/')}/{url.lstrip('/')}" for a relative url
ResolveUrl(url) == IF IsAbsolute(url) THEN url ELSE BaseUrl \o url

Request(method, url, params) ==
    [method |-> method, url |-> url, params |-> params]

\* Retry-After header values: absent, a decimal number, an HTTP date.
NoHeader == [present |-> FALSE, numeric |-> FALSE, value |-> 0]
RetryAfterHeaders ==
    {NoHeader,
     [present |-> TRUE, numeric |-> TRUE, value |-> 5],
     [present |-> TRUE, numeric |-> FALSE, value |-> 0]}

\* Response bodies: JSON objects as their sequence of <<key, value>> members.
\* The first two are the same object with its members in another order.
Bodies ==
    {<< <<1, 1>>, <<2, 2>> >>,
     << <<2, 2>>, <<1, 1>> >>,
     << <<1, 1>>, <<2, 3>> >>}

Responses ==
    {[kind |-> "status", status |-> 200, body |-> b, header |-> NoHeader] :
        b \in Bodies}
    \cup {[kind |-> "status", status |-> 429, body |-> <<>>, header |-> h] :
        h \in RetryAfterHeaders}
    \cup {[kind |-> "status", status |-> st, body |-> <<>>, header |-> NoHeader] :
        st \in {404, 503}}
    \cup {[kind |-> k, status |-> 0, body |-> <<>>, header |-> NoHeader] :
        k \in {"timeout", "request_error"}}

NoResponse == [kind |-> "none", status |-> 0, body |-> <<>>, header |-> NoHeader]

\* Outcomes of a call: nothing yet, a returned value, a raised exception.
\* retry_after -1 is None.
Pending == [kind |-> "pending", status_code |-> 0, retry_after |-> -1]
ReturnedResponse == [kind |-> "response", status_code |-> 0, retry_after |-> -1]
FetcherError(status_code, retry_after) ==
    [kind |-> "FetcherError", status_code |-> status_code,
     retry_after |-> retry_after]
ValueError == [kind |-> "ValueError", status_code |-> 0, retry_after |-> -1]
IntegrityError ==
    [kind |-> "IntegrityError", status_code |-> 0, retry_after |-> -1]

\* int(response.headers.get("Retry-After", "60")), then the rate-limit error;
\* int() of a value that is not a decimal number raises ValueError.
RateLimited(header) ==
    IF ~header.present THEN FetcherError(429, DefaultRetryAfter)
    ELSE IF header.numeric THEN FetcherError(429, header.value)
    ELSE ValueError

\* What _make_request raises once it does not retry a failed request.
\* FetcherError's status_code defaults to 500.
RequestFailed(resp) ==
    IF resp.kind = "status" THEN FetcherError(resp.status, -1)
    ELSE FetcherError(500, -1)

\* The retry test off by one.
MayRetry_Inclusive(count, limit) == count <= limit

\* if retry_count < self.max_retries: retry
MayRetry(count, limit) == count < limit

\* json.dumps(data, sort_keys=True): the members ordered by key.
RECURSIVE SortKeys(_)
SortKeys(members) ==
    IF members = <<>> THEN <<>>
    ELSE LET i == CHOOSE j \in 1..Len(members) :
                     \A h \in 1..Len(members) : members[j][1] <= members[h][1]
             rest == [h \in 1..(Len(members) - 1) |->
                          IF h < i THEN members[h] ELSE members[h + 1]]
         IN  <<members[i]>> \o SortKeys(rest)

\* BaseFetcher.generate_hash: SHA-256 of the canonical serialization (distinct
\* serializations have distinct digests).
generate_hash(members) == <<"sha256", SortKeys(members)>>

\* fetch() without its look-up of the fingerprint.
ReportExists_Never(reports, report_hash) == FALSE

\* session.query(InjuryReport).filter_by(report_hash=report_hash).first()
ReportExists(reports, report_hash) ==
    \E i \in 1..Len(reports) : reports[i].report_hash = report_hash

\* report_hash without its unique constraint.
UniqueViolation_Never(reports, report_hash) == FALSE

\* The unique constraint on InjuryReport.report_hash.
UniqueViolation(reports, report_hash) ==
    \E i \in 1..Len(reports) : reports[i].report_hash = report_hash

\* except Exception as e: raise FetcherError(f"Failed to fetch ...: {str(e)}")
FetchFailure(e) == FetcherError(500, -1)

FetchResult(is_new, report_hash, report_id) ==
    [kind |-> "result", is_new |-> is_new, hash |-> report_hash,
     report_id |-> report_id, status_code |-> 0, retry_after |-> -1]

NoResult ==
    [kind |-> "pending", is_new |-> FALSE, hash |-> <<>>, report_id |-> 0,
     status_code |-> 0, retry_after |-> -1]

Raised(e) ==
    [kind |-> e.kind, is_new |-> FALSE, hash |-> <<>>, report_id |-> 0,
     status_code |-> e.status_code, retry_after |-> e.retry_after]

\* ------------------------------------------------------------------------
\* Poll loops: NBAInjuryPoller.start_polling ("poller") and
\* poll_for_new_report ("oneshot")
\* ------------------------------------------------------------------------
\* The sleep start_polling takes after a FetcherError: e.retry_after when it
\* is set and non-zero, else the poll interval.
SleepAfterError(e) ==
    IF e.retry_after # -1 /\ e.retry_after # 0 THEN e.retry_after
    ELSE PollInterval

\* A start_polling whose except clause catches nothing.
StartPollingCatches_Nothing(e) == FALSE

\* start_polling: except FetcherError as e
StartPollingCatches(e) == e.kind = "FetcherError"

\* fetch() raised e inside the loop of f.  poll_for_new_report catches every
\* Exception; an exception start_polling does not catch ends it.
LoopCatches(f, e) ==
    /\ fetch_out' = [fetch_out EXCEPT ![f] = Raised(e)]
    /\ IF f = "poller" /\ ~StartPollingCatches(e)
       THEN /\ f_pc' = [f_pc EXCEPT ![f] = "failed"]
            /\ UNCHANGED sleep_for
       ELSE /\ f_pc' = [f_pc EXCEPT ![f] = "sleep"]
            /\ sleep_for' = [sleep_for EXCEPT ![f] =
                   IF f = "poller" THEN SleepAfterError(e) ELSE PollInterval]

\* A start_polling that forwards every result.
InvokesCallback_Always(result) == TRUE

\* start_polling: if result.get("is_new", False) and callback
InvokesCallback(result) == result.is_new

\* A poll_for_new_report that returns whatever the poll gave.
OneShotReturns_Any(result) == TRUE

\* poll_for_new_report: if result.get("is_new", False): return result
OneShotReturns(result) == result.is_new

\* fetch() returned result inside the loop of f.
LoopReceives(f, result) ==
    /\ fetch_out' = [fetch_out EXCEPT ![f] = result]
    /\ IF f = "poller"
       THEN IF InvokesCallback(result)
            THEN /\ f_pc' = [f_pc EXCEPT ![f] = "callback"]
                 /\ UNCHANGED sleep_for
            ELSE /\ f_pc' = [f_pc EXCEPT ![f] = "sleep"]
                 /\ sleep_for' = [sleep_for EXCEPT ![f] = PollInterval]
       ELSE IF OneShotReturns(result)
            THEN /\ f_pc' = [f_pc EXCEPT ![f] = "done"]
                 /\ UNCHANGED sleep_for
            ELSE /\ f_pc' = [f_pc EXCEPT ![f] = "sleep"]
                 /\ sleep_for' = [sleep_for EXCEPT ![f] = PollInterval]

\* Outcomes of on_new_report's body: processor.process raises ProcessorError,
\* or it returns and `with get_db() as db` raises TypeError (get_db is a plain
\* generator function, not a context manager).
NoCallback == "none"
CallbackOutcomes == {"ProcessorError", "TypeError"}

\* An on_new_report without its try/except.
CallbackEscapes_Uncaught(outcome) == TRUE

\* on_new_report: except Exception as e: logger.error(...)
CallbackEscapes(outcome) == FALSE

\* A loop that ignores the flag.
LoopContinues_Always(flag) == TRUE

\* start_polling: while self._running
LoopContinues(flag) == flag

\* A new poll cycle: poll_once() -> fetch() -> _make_request(retry_count=0).
BeginCycle(f) ==
    /\ f_pc' = [f_pc EXCEPT ![f] = "request"]
    /\ cycles' = [cycles EXCEPT ![f] = @ + 1]
    /\ retry_count' = [retry_count EXCEPT ![f] = 0]
    /\ requests' = [requests EXCEPT ![f] = <<>>]
    /\ last_response' = [last_response EXCEPT ![f] = NoResponse]
    /\ mr_out' = [mr_out EXCEPT ![f] = Pending]
    /\ fetch_out' = [fetch_out EXCEPT ![f] = NoResult]
    /\ data' = [data EXCEPT ![f] = <<>>]
    /\ sleep_for' = [sleep_for EXCEPT ![f] = 0]
    /\ callback_out' = IF f = "poller" THEN NoCallback ELSE callback_out

\* start_polling: set _running and enter the loop.
StartPolling ==
    /\ f_pc["poller"] = "stopped"
    /\ cycles["poller"] < MaxCycles
    /\ running' = TRUE
    /\ BeginCycle("poller")
    /\ UNCHANGED <<injury_report, max_retries>>
    /\ UNCHANGED psc_vars
    /\ UNCHANGED router_vars
    /\ UNCHANGED batch_vars
    /\ UNCHANGED extract_vars
    /\ UNCHANGED loop_vars
    /\ UNCHANGED target_vars
    /\ UNCHANGED diff_vars

\* stop_polling: clear _running.
StopPolling ==
    /\ running
    /\ running' = FALSE
    /\ UNCHANGED <<injury_report, max_retries, f_pc, retry_count, requests,
                   last_response, mr_out, fetch_out, data, sleep_for,
                   callback_out, cycles>>
    /\ UNCHANGED psc_vars
    /\ UNCHANGED router_vars
    /\ UNCHANGED batch_vars
    /\ UNCHANGED extract_vars
    /\ UNCHANGED loop_vars
    /\ UNCHANGED target_vars
    /\ UNCHANGED diff_vars

\* poll_for_new_report: the wait for the target time is over, the loop starts.
StartOneShot ==
    /\ f_pc["oneshot"] = "init"
    /\ BeginCycle("oneshot")
    /\ UNCHANGED <<injury_report, max_retries, running>>
    /\ UNCHANGED psc_vars
    /\ UNCHANGED router_vars
    /\ UNCHANGED batch_vars
    /\ UNCHANGED extract_vars
    /\ UNCHANGED loop_vars
    /\ UNCHANGED target_vars
    /\ UNCHANGED diff_vars

\* One request of _make_request completes with resp; the code runs on to the
\* next request, the insert of the new report, or the loop's sleep.
HttpResponse(f, resp) ==
    /\ f_pc[f] = "request"
    /\ requests' = [requests EXCEPT ![f] =
           Append(@, Request("GET", ResolveUrl(InjuryReportEndpoint), None))]
    /\ last_response' = [last_response EXCEPT ![f] = resp]
    /\ IF resp.kind = "status" /\ resp.status = 429
       THEN /\ mr_out' = [mr_out EXCEPT ![f] = RateLimited(resp.header)]
            /\ LoopCatches(f, FetchFailure(RateLimited(resp.header)))
            /\ UNCHANGED <<retry_count, data>>
       ELSE IF resp.kind # "status" \/ resp.status >= 400
       THEN IF MayRetry(retry_count[f], max_retries)
            THEN /\ retry_count' = [retry_count EXCEPT ![f] = @ + 1]
                 /\ UNCHANGED <<f_pc, mr_out, fetch_out, data, sleep_for>>
            ELSE /\ mr_out' = [mr_out EXCEPT ![f] = RequestFailed(resp)]
                 /\ LoopCatches(f, FetchFailure(RequestFailed(resp)))
                 /\ UNCHANGED <<retry_count, data>>
       ELSE /\ mr_out' = [mr_out EXCEPT ![f] = ReturnedResponse]
            /\ data' = [data EXCEPT ![f] = resp.body]
            /\ UNCHANGED retry_count
            /\ IF ReportExists(injury_report, generate_hash(resp.body))
               THEN LoopReceives(f, FetchResult(FALSE, generate_hash(resp.body), 0))
               ELSE /\ f_pc' = [f_pc EXCEPT ![f] = "insert"]
                    /\ UNCHANGED <<fetch_out, sleep_for>>
    /\ UNCHANGED <<injury_report, max_retries, running, callback_out, cycles>>
    /\ UNCHANGED psc_vars
    /\ UNCHANGED router_vars
    /\ UNCHANGED batch_vars
    /\ UNCHANGED extract_vars
    /\ UNCHANGED loop_vars
    /\ UNCHANGED target_vars
    /\ UNCHANGED diff_vars

\* The second transaction of fetch(): store the report; the unique constraint
\* on report_hash makes the commit fail when the fingerprint is stored already.
StoreReport(f) ==
    /\ f_pc[f] = "insert"
    /\ IF UniqueViolation(injury_report, generate_hash(data[f]))
       THEN /\ LoopCatches(f, FetchFailure(IntegrityError))
            /\ UNCHANGED injury_report
       ELSE /\ injury_report' = Append(injury_report,
                 [report_hash |-> generate_hash(data[f]), raw_content |-> data[f]])
            /\ LoopReceives(f, FetchResult(TRUE, generate_hash(data[f]),
                                           Len(injury_report) + 1))
    /\ UNCHANGED <<max_retries, running, retry_count, requests, last_response,
                   mr_out, data, callback_out, cycles>>
    /\ UNCHANGED psc_vars
    /\ UNCHANGED router_vars
    /\ UNCHANGED batch_vars
    /\ UNCHANGED extract_vars
    /\ UNCHANGED loop_vars
    /\ UNCHANGED target_vars
    /\ UNCHANGED diff_vars

\* The callback of start_polling (on_new_report) has ended with outcome.  It
\* catches what its body raises, and the loop sleeps poll_interval; an
\* exception leaving it is no FetcherError and would end start_polling.
CallbackDone(outcome) ==
    /\ f_pc["poller"] = "callback"
    /\ callback_out' = outcome
    /\ IF CallbackEscapes(outcome)
       THEN /\ f_pc' = [f_pc EXCEPT !["poller"] = "failed"]
            /\ UNCHANGED sleep_for
       ELSE /\ f_pc' = [f_pc EXCEPT !["poller"] = "sleep"]
            /\ sleep_for' = [sleep_for EXCEPT !["poller"] = PollInterval]
    /\ UNCHANGED <<injury_report, max_retries, running, retry_count, requests,
                   last_response, mr_out, fetch_out, data, cycles>>
    /\ UNCHANGED psc_vars
    /\ UNCHANGED router_vars
    /\ UNCHANGED batch_vars
    /\ UNCHANGED extract_vars
    /\ UNCHANGED loop_vars
    /\ UNCHANGED target_vars
    /\ UNCHANGED diff_vars

\* The sleep is over: start_polling tests _running, poll_for_new_report loops.
Wake(f) ==
    /\ f_pc[f] = "sleep"
    /\ IF f = "poller" /\ ~LoopContinues(running)
       THEN /\ f_pc' = [f_pc EXCEPT ![f] = "stopped"]
            /\ UNCHANGED <<retry_count, requests, last_response, mr_out,
                           fetch_out, data, sleep_for, callback_out, cycles>>
       ELSE /\ cycles[f] < MaxCycles
            /\ BeginCycle(f)
    /\ UNCHANGED <<injury_report, max_retries, running>>
    /\ UNCHANGED psc_vars
    /\ UNCHANGED router_vars
    /\ UNCHANGED batch_vars
    /\ UNCHANGED extract_vars
    /\ UNCHANGED loop_vars
    /\ UNCHANGED target_vars
    /\ UNCHANGED diff_vars

\* ------------------------------------------------------------------------
\* Several start_polling calls on one NBAInjuryPoller.  A call is "idle"
\* (not made yet), in a "cycle" (suspended in poll_once or the callback), in
\* its "sleep", or "returned".
\* ------------------------------------------------------------------------
Loops == 1..MaxLoops

ActiveLoops == {l \in Loops : loop_pc[l] \in {"cycle", "sleep"}}

\* start_polling is called: self._running = True, and `while self._running`
\* enters the first cycle.
LoopStart(l) ==
    /\ loop_pc[l] = "idle"
    /\ running' = TRUE
    /\ loop_pc' = [loop_pc EXCEPT ![l] = "cycle"]
    /\ UNCHANGED stop_asked
    /\ UNCHANGED <<injury_report, max_retries, f_pc, retry_count, requests,
                   last_response, mr_out, fetch_out, data, sleep_for,
                   callback_out, cycles>>
    /\ UNCHANGED psc_vars
    /\ UNCHANGED diff_vars
    /\ UNCHANGED router_vars
    /\ UNCHANGED batch_vars
    /\ UNCHANGED extract_vars
    /\ UNCHANGED target_vars

\* The cycle of the call l ends (a result with or without callback, or a
\* FetcherError): it suspends in asyncio.sleep.
LoopCycleEnds(l) ==
    /\ loop_pc[l] = "cycle"
    /\ loop_pc' = [loop_pc EXCEPT ![l] = "sleep"]
    /\ UNCHANGED stop_asked
    /\ UNCHANGED psc_vars
    /\ UNCHANGED fetch_vars
    /\ UNCHANGED diff_vars
    /\ UNCHANGED router_vars
    /\ UNCHANGED batch_vars
    /\ UNCHANGED extract_vars
    /\ UNCHANGED target_vars

\* The sleep of the call l is over: `while self._running` is tested.
LoopWakes(l) ==
    /\ loop_pc[l] = "sleep"
    /\ loop_pc' = [loop_pc EXCEPT ![l] =
           IF LoopContinues(running) THEN "cycle" ELSE "returned"]
    /\ UNCHANGED stop_asked
    /\ UNCHANGED psc_vars
    /\ UNCHANGED fetch_vars
    /\ UNCHANGED diff_vars
    /\ UNCHANGED router_vars
    /\ UNCHANGED batch_vars
    /\ UNCHANGED extract_vars
    /\ UNCHANGED target_vars

\* stop_polling is called: self._running = False.
LoopStop ==
    /\ running
    /\ running' = FALSE
    /\ stop_asked' = stop_asked \cup ActiveLoops
    /\ UNCHANGED loop_pc
    /\ UNCHANGED <<injury_report, max_retries, f_pc, retry_count, requests,
                   last_response, mr_out, fetch_out, data, sleep_for,
                   callback_out, cycles>>
    /\ UNCHANGED psc_vars
    /\ UNCHANGED diff_vars
    /\ UNCHANGED router_vars
    /\ UNCHANGED batch_vars
    /\ UNCHANGED extract_vars
    /\ UNCHANGED target_vars

\* ------------------------------------------------------------------------
\* Diff engine (InjuryReportProcessor.compute_diff) and the pipeline cycle
\* (on_new_report)
\* ------------------------------------------------------------------------
Statuses == {"OUT", "QUESTIONABLE"}

\* "new_status": "ACTIVE" for a player removed from the report
Baseline == "ACTIVE"

\* "old_status": None
NoStatus == "null"

StatusRecord(player_id, status) == [player_id |-> player_id, status |-> status]

StatusRecords == {StatusRecord(p, st) : p \in PlayerIds, st \in Statuses}

\* Lists of player statuses, a player possibly listed more than once.
StatusLists == UNION {[1..n -> StatusRecords] : n \in 0..MaxStatuses}

UniqueIds(statuses) ==
    \A i, j \in 1..Len(statuses) :
        statuses[i].player_id = statuses[j].player_id => i = j

Ids(statuses) == {statuses[i].player_id : i \in 1..Len(statuses)}

\* A dict that keeps its first key only.
Keys_HeadOnly(statuses) ==
    IF statuses = <<>> THEN <<>> ELSE <<statuses[1].player_id>>

\* {status["player_id"]: status for status in statuses}: the keys of the dict
\* in insertion order; a key is inserted by its first record ...
Keys(statuses) ==
    LET first == {i \in 1..Len(statuses) :
                     \A j \in 1..(i - 1) :
                         statuses[j].player_id # statuses[i].player_id}
        order == SortedSeq(first)
    IN  [k \in 1..Len(order) |-> statuses[order[k]].player_id]

\* ... and holds the value of its last record.
Value(statuses, player_id) ==
    LET last == CHOOSE i \in 1..Len(statuses) :
                    /\ statuses[i].player_id = player_id
                    /\ \A j \in (i + 1)..Len(statuses) :
                           statuses[j].player_id # player_id
    IN  statuses[last].status

\* player_id in previous_by_player
HasKey(statuses, player_id) == player_id \in Ids(statuses)

\* A comparison that finds every pair of labels different.
StatusDiffers_Always(current_status, prev_status) == TRUE

\* current_status["status"] != prev_status["status"]
StatusDiffers(current_status, prev_status) == current_status # prev_status

ChangeRecord(player_id, old_status, new_status) ==
    [player_id |-> player_id, old_status |-> old_status,
     new_status |-> new_status]

\* A changed player's record with its two labels swapped.
ChangedRecord_Swapped(player_id, prev_status, current_status) ==
    ChangeRecord(player_id, current_status, prev_status)

ChangedRecord(player_id, prev_status, current_status) ==
    ChangeRecord(player_id, prev_status, current_status)

AddedRecord(player_id, current_status) ==
    ChangeRecord(player_id, NoStatus, current_status)

\* A removed player's record that keeps the previous label.
RemovedRecord_KeepsStatus(player_id, prev_status) ==
    ChangeRecord(player_id, prev_status, prev_status)

RemovedRecord(player_id, prev_status) ==
    ChangeRecord(player_id, prev_status, Baseline)

\* The three loops of compute_diff, in their order.
ChangedPlayers(current, previous) ==
    LET ks == Keys(current)
    IN  ConcatAll([k \in 1..Len(ks) |->
            IF /\ HasKey(previous, ks[k])
               /\ StatusDiffers(Value(current, ks[k]), Value(previous, ks[k]))
            THEN <<ChangedRecord(ks[k], Value(previous, ks[k]),
                                 Value(current, ks[k]))>>
            ELSE <<>>])

AddedPlayers(current, previous) ==
    LET ks == Keys(current)
    IN  ConcatAll([k \in 1..Len(ks) |->
            IF ~HasKey(previous, ks[k])
            THEN <<AddedRecord(ks[k], Value(current, ks[k]))>>
            ELSE <<>>])

RemovedPlayers(current, previous) ==
    LET ks == Keys(previous)
    IN  ConcatAll([k \in 1..Len(ks) |->
            IF ~HasKey(current, ks[k])
            THEN <<RemovedRecord(ks[k], Value(previous, ks[k]))>>
            ELSE <<>>])

DiffChanges(current, previous) ==
    ChangedPlayers(current, previous)
    \o AddedPlayers(current, previous)
    \o RemovedPlayers(current, previous)

\* _store_status_changes: one StatusChange row per change, for report_id.
StoredRows(diff, report_id) ==
    [i \in 1..Len(diff) |-> NewStatusChange(diff[i].player_id, report_id)]

\* compute_diff on the two lists, the transaction of _store_status_changes
\* included.  The lists belong to the reports 2 (current) and 1 (previous).
ComputeDiff ==
    /\ diff_runs < MaxDiffRuns
    /\ diff_runs' = diff_runs + 1
    /\ changes' = DiffChanges(current_statuses, previous_statuses)
    /\ status_change' = status_change \o StoredRows(changes', 2)
    /\ UNCHANGED <<current_statuses, previous_statuses, processed>>
    /\ UNCHANGED <<clock, notifiers, time_of_day, psc_pc, psc_ids, db_changes,
                   notifications_to_send, results, next_channel, psc_return,
                   invocations, sends, skipped>>
    /\ UNCHANGED fetch_vars
    /\ UNCHANGED router_vars
    /\ UNCHANGED batch_vars
    /\ UNCHANGED extract_vars
    /\ UNCHANGED loop_vars
    /\ UNCHANGED target_vars

\* `with get_db() as db`: get_db is a generator function without
\* contextlib.contextmanager, so the with statement raises TypeError.
GetDbIsContextManager == FALSE

\* dict.get(key) of a missing key
Null == "null"

\* InjuryStatus(status=..., reason=..., player_id=..., report_id=...):
\* is_status_change and previous_status are not passed and take the column
\* defaults, False and NULL.
NewInjuryStatus(st, report_id) ==
    [player_id |-> st.player_id,
     report_id |-> report_id,
     status |-> st.status,
     is_status_change |-> FALSE,
     previous_status |-> Null]

\* _store_player_statuses: one InjuryStatus row per status, in order.
StoredStatuses(statuses, report_id) ==
    [i \in 1..Len(statuses) |-> NewInjuryStatus(statuses[i], report_id)]

\* An on_new_report that diffs every report, the first included.
ComputesDiff_Always(report_count) == TRUE

\* The diff is reached when the session opens and a report precedes the new
\* one: order_by(report_date.desc()).offset(1).first() is a row once
\* report_count reports are stored, report_count >= 2.
ComputesDiff(report_count) == GetDbIsContextManager /\ report_count >= 2

\* on_new_report for a new report whose processed player statuses are
\* statuses (report id = its position).  processor.process stores one
\* InjuryStatus row per status and returns them; the
\* with statement raises, the except clause logs, and the callback returns.
\* Were the session opened: with a previous report stored, compute_diff runs
\* against previous_data whose "player_statuses" is [] and stores its changes.
OnNewReport(statuses) ==
    /\ Len(processed) < MaxSnapshots
    /\ processed' = Append(processed, statuses)
    /\ injury_status' = injury_status \o StoredStatuses(statuses, Len(processed'))
    /\ UNCHANGED <<report_players, player_statuses, process_out, process_calls>>
    /\ UNCHANGED loop_vars
    /\ UNCHANGED target_vars
    /\ IF ComputesDiff(Len(processed'))
       THEN /\ changes' = DiffChanges(statuses, <<>>)
            /\ status_change' = status_change \o
                   StoredRows(changes', Len(processed'))
       ELSE UNCHANGED <<changes, status_change>>
    /\ UNCHANGED <<current_statuses, previous_statuses, diff_runs>>
    /\ UNCHANGED <<clock, notifiers, time_of_day, psc_pc, psc_ids, db_changes,
                   notifications_to_send, results, next_channel, psc_return,
                   invocations, sends, skipped>>
    /\ UNCHANGED fetch_vars
    /\ UNCHANGED router_vars
    /\ UNCHANGED batch_vars

\* ------------------------------------------------------------------------
\* Channel senders (EmailNotifier, PushNotifier, WebSocketNotifier):
\* send_batch and the send_notification calls it makes
\* ------------------------------------------------------------------------
Recipients == {"a", "b"}

Notification(recipient, change_id) ==
    [recipient |-> recipient, subject |-> "subject", message |-> "message",
     change_id |-> change_id]

Notifications == {Notification(r, c) : r \in Recipients, c \in {1, 2}}

NotificationLists == UNION {[1..n -> Notifications] : n \in 0..MaxBatch}

NoError == "none"

\* The ways one send_notification call can end on the channel: PushNotifier
\* is a placeholder that answers success; send_notification of the other two
\* wraps what the transport raises in NotifierError, and WebSocketNotifier
\* raises for a recipient that is not connected.
SendResults(channel, recipient, connections) ==
    CASE channel = "push" -> {NoError}
      [] channel = "email" -> {NoError, "Failed to send email"}
      [] channel = "websocket" ->
            IF recipient \in connections
            THEN {NoError, "Failed to send WebSocket notification"}
            ELSE {"WebSocket client not connected"}

\* The dict send_notification returns.
SentResult(channel, notification) ==
    [success |-> TRUE, recipient |-> notification.recipient,
     subject |-> notification.subject, channel |-> channel, error |-> NoError]

\* An except clause that records nothing.
OnSendError_Skip(so_far, channel, notification, e) == so_far

\* except Exception as e: results.append({"success": False, ...})
OnSendError(so_far, channel, notification, e) ==
    Append(so_far,
           [success |-> FALSE, recipient |-> notification.recipient,
            subject |-> notification.subject, channel |-> channel,
            error |-> e])

\* send_batch is called on notifications; with an empty list it returns [].
SendBatchCall(channel, notifications) ==
    /\ batch_pc = "idle"
    /\ batch_channel' = channel
    /\ batch_input' = notifications
    /\ batch_results' = <<>>
    /\ send_outcomes' = <<>>
    /\ batch_pc' = IF notifications = <<>> THEN "returned" ELSE "sending"
    /\ UNCHANGED <<active_connections, websockets, ws_client, ws_pc>>
    /\ UNCHANGED psc_vars
    /\ UNCHANGED fetch_vars
    /\ UNCHANGED diff_vars
    /\ UNCHANGED router_vars
    /\ UNCHANGED extract_vars
    /\ UNCHANGED loop_vars
    /\ UNCHANGED target_vars

\* One iteration of the loop of send_batch: the awaited send_notification
\* ends with e; after the last notification send_batch returns results.
SendNotification(e) ==
    /\ batch_pc = "sending"
    /\ LET notification == batch_input[Len(send_outcomes) + 1]
       IN  /\ e \in SendResults(batch_channel, notification.recipient,
                                 active_connections)
           /\ batch_results' =
                  IF e = NoError
                  THEN Append(batch_results,
                              SentResult(batch_channel, notification))
                  ELSE OnSendError(batch_results, batch_channel,
                                   notification, e)
    /\ send_outcomes' = Append(send_outcomes, e)
    /\ batch_pc' = IF Len(send_outcomes') = Len(batch_input) THEN "returned"
                   ELSE "sending"
    /\ UNCHANGED <<batch_channel, batch_input, active_connections, websockets,
                   ws_client, ws_pc>>
    /\ UNCHANGED psc_vars
    /\ UNCHANGED fetch_vars
    /\ UNCHANGED diff_vars
    /\ UNCHANGED router_vars
    /\ UNCHANGED extract_vars
    /\ UNCHANGED loop_vars
    /\ UNCHANGED target_vars

\* ------------------------------------------------------------------------
\* WebSocket endpoint (websocket_endpoint, WebSocketNotifier.connect and
\* disconnect)
\* ------------------------------------------------------------------------
Connections == 1..MaxConnections

\* A client opens connection k on /ws/{client_id}: websocket_endpoint calls
\* connect, which suspends in `await websocket.accept()`.
WsOpen(k, client_id) ==
    /\ ws_pc[k] = "idle"
    /\ ws_pc' = [ws_pc EXCEPT ![k] = "accepting"]
    /\ ws_client' = [ws_client EXCEPT ![k] = client_id]
    /\ UNCHANGED <<batch_channel, batch_input, active_connections,
                   batch_results, send_outcomes, batch_pc, websockets>>
    /\ UNCHANGED psc_vars
    /\ UNCHANGED fetch_vars
    /\ UNCHANGED diff_vars
    /\ UNCHANGED router_vars
    /\ UNCHANGED extract_vars
    /\ UNCHANGED loop_vars
    /\ UNCHANGED target_vars

\* accept() has returned: self.active_connections[client_id] = websocket,
\* replacing what was stored under the id; the handler enters its receive
\* loop.
WsAccepted(k) ==
    /\ ws_pc[k] = "accepting"
    /\ ws_pc' = [ws_pc EXCEPT ![k] = "open"]
    /\ websockets' = [websockets EXCEPT ![ws_client[k]] = k]
    /\ active_connections' = active_connections \cup {ws_client[k]}
    /\ UNCHANGED <<batch_channel, batch_input, batch_results, send_outcomes,
                   batch_pc, ws_client>>
    /\ UNCHANGED psc_vars
    /\ UNCHANGED fetch_vars
    /\ UNCHANGED diff_vars
    /\ UNCHANGED router_vars
    /\ UNCHANGED extract_vars
    /\ UNCHANGED loop_vars
    /\ UNCHANGED target_vars

\* disconnect(client_id) of the handler of connection k:
\* if client_id in self.active_connections: del self.active_connections[client_id]
Unregistered(registered, k) ==
    [registered EXCEPT ![ws_client[k]] = 0]

\* receive_text() of connection k raises WebSocketDisconnect: the handler
\* calls disconnect(client_id) and ends.
WsDisconnected(k) ==
    /\ ws_pc[k] = "open"
    /\ ws_pc' = [ws_pc EXCEPT ![k] = "closed"]
    /\ websockets' = Unregistered(websockets, k)
    /\ active_connections' = {c \in Recipients : websockets'[c] # 0}
    /\ UNCHANGED <<batch_channel, batch_input, batch_results, send_outcomes,
                   batch_pc, ws_client>>
    /\ UNCHANGED psc_vars
    /\ UNCHANGED fetch_vars
    /\ UNCHANGED diff_vars
    /\ UNCHANGED router_vars
    /\ UNCHANGED extract_vars
    /\ UNCHANGED loop_vars
    /\ UNCHANGED target_vars

\* No connection has reached the endpoint.
InitEndpoint ==
    /\ websockets = [c \in Recipients |-> 0]
    /\ ws_client = [k \in Connections |-> ""]
    /\ ws_pc = [k \in Connections |-> "idle"]

\* No send_batch call of its own is in progress.
InitBatch ==
    /\ batch_channel = "email"
    /\ batch_input = <<>>
    /\ active_connections = {}
    /\ batch_results = <<>>
    /\ send_outcomes = <<>>
    /\ batch_pc = "idle"
    /\ InitEndpoint

\* ------------------------------------------------------------------------
\* Normalization (InjuryReportProcessor.process, _extract_player_statuses)
\* ------------------------------------------------------------------------
Get(d, key) == IF key \in DOMAIN d THEN d[key] ELSE Null

RequiredKeys == {"personId", "name", "teamName"}

OptionalKeys == {"reason", "details", "gameDate", "opponent"}

\* An entry of the payload's player list for the player p: a dict holding the
\* keys of RequiredKeys and those of present.
PlayerEntry(p, present) ==
    [key \in RequiredKeys \cup present |->
        CASE key = "personId" -> ToString(p)
          [] key = "name" -> Player[p].name
          [] key = "teamName" -> Player[p].team
          [] OTHER -> key]

\* Entries with a status or none, and with every optional key, every one but
\* one, or none of them.
PresentKeys ==
    {OptionalKeys, {}} \cup {OptionalKeys \ {key} : key \in OptionalKeys}

PlayerEntries ==
    {PlayerEntry(p, present \cup st) :
        p \in PlayerIds, present \in PresentKeys, st \in {{}, {"status"}}}

PlayerLists == UNION {[1..n -> PlayerEntries] : n \in 0..MaxStatuses}

\* An extraction that leaves out the entries lacking an optional key.
ExtractedOf_CompleteOnly(players) ==
    LET Complete(player_data) == OptionalKeys \subseteq DOMAIN player_data
        complete == SelectSeq(players, Complete)
    IN  [i \in 1..Len(complete) |->
            [player_id |-> Get(complete[i], "personId"),
             player_name |-> Get(complete[i], "name"),
             team |-> Get(complete[i], "teamName"),
             status |-> Get(complete[i], "status"),
             reason |-> Get(complete[i], "reason"),
             details |-> Get(complete[i], "details"),
             game_date |-> Get(complete[i], "gameDate"),
             opponent |-> Get(complete[i], "opponent")]]

\* for player_data in report_data["players"]: player_statuses.append({...})
ExtractedOf(players) ==
    [i \in 1..Len(players) |->
        [player_id |-> Get(players[i], "personId"),
         player_name |-> Get(players[i], "name"),
         team |-> Get(players[i], "teamName"),
         status |-> Get(players[i], "status"),
         reason |-> Get(players[i], "reason"),
         details |-> Get(players[i], "details"),
         game_date |-> Get(players[i], "gameDate"),
         opponent |-> Get(players[i], "opponent")]]

\* _store_player_statuses: InjuryStatus.status is not nullable, the flush of a
\* row without it raises; reason, details, game_date and opponent are.
StoreRaises(extracted) ==
    \E i \in 1..Len(extracted) : extracted[i].status = Null

\* Player.is_top_100
TopPlayers == {1}

\* _filter_top_players: the statuses whose player_id is the nba_id of a
\* top-ranked player.
FilterTopPlayers(extracted) ==
    LET IsTop(st) == st.player_id \in {ToString(p) : p \in TopPlayers}
    IN  SelectSeq(extracted, IsTop)

NotProcessed == "none"

\* process() on the next report (its id = the number of process() calls),
\* whose data holds the player list players: the extraction, the filter
\* (top_players_only is on), then the store of the statuses kept; what the
\* store raises rolls its transaction back and leaves process() as
\* ProcessorError.
Process(players) ==
    /\ process_calls < MaxSnapshots
    /\ process_calls' = process_calls + 1
    /\ report_players' = players
    /\ player_statuses' = ExtractedOf(players)
    /\ IF StoreRaises(FilterTopPlayers(player_statuses'))
       THEN /\ process_out' = "ProcessorError"
            /\ UNCHANGED injury_status
       ELSE /\ process_out' = "returned"
            /\ injury_status' = injury_status \o
                   StoredStatuses(FilterTopPlayers(player_statuses'),
                                  process_calls')
    /\ UNCHANGED loop_vars
    /\ UNCHANGED target_vars
    /\ UNCHANGED psc_vars
    /\ UNCHANGED fetch_vars
    /\ UNCHANGED diff_vars
    /\ UNCHANGED router_vars
    /\ UNCHANGED batch_vars

InitExtract ==
    /\ report_players = <<>>
    /\ player_statuses = <<>>
    /\ process_out = NotProcessed
    /\ injury_status = <<>>
    /\ process_calls = 0

InitDiff ==
    /\ current_statuses = <<>>
    /\ previous_statuses = <<>>
    /\ changes = <<>>
    /\ diff_runs = 0
    /\ processed = <<>>

\* _is_in_quiet_hours(user) called for the user u at the time time_of_day.
NotCalled == [user |-> 0, result |-> FALSE]

CheckQuietHours(u) ==
    /\ in_quiet_hours = NotCalled
    /\ in_quiet_hours' = [user |-> u, result |-> IsInQuietHours(u, time_of_day)]
    /\ UNCHANGED user_table
    /\ UNCHANGED psc_vars
    /\ UNCHANGED fetch_vars
    /\ UNCHANGED diff_vars
    /\ UNCHANGED batch_vars
    /\ UNCHANGED extract_vars
    /\ UNCHANGED loop_vars
    /\ UNCHANGED target_vars

\* The users of the deployment; _is_in_quiet_hours not called yet.
InitRouter ==
    /\ user_table = User
    /\ in_quiet_hours = NotCalled

InitDelivery ==
    /\ status_change = <<>>
    /\ clock = 1
    /\ psc_pc = [p \in Callers |-> "idle"]
    /\ psc_ids = [p \in Callers |-> {}]
    /\ db_changes = [p \in Callers |-> {}]
    /\ notifications_to_send = [p \in Callers |-> <<>>]
    /\ results = [p \in Callers |-> <<>>]
    /\ next_channel = [p \in Callers |-> 1]
    /\ psc_return = [p \in Callers |-> NoReturn]
    /\ invocations = [p \in Callers |-> 0]
    /\ sends = [k \in SendKeys |-> 0]
    /\ skipped = {}

\* ------------------------------------------------------------------------
\* poll_for_new_report: the target time and the wait before the first poll.
\* A datetime is <<minutes after midnight of the day of the call, 1 if its
\* seconds or microseconds are not zero else 0>>.
\* ------------------------------------------------------------------------
\* hour: int = None
NoHour == -1

NotComputed == <<-1, 0>>

\* a < b on datetimes
Before(a, b) == a[1] < b[1] \/ (a[1] = b[1] /\ a[2] < b[2])

\* now.replace(minute=minute, second=0, microsecond=0), with hour=hour when
\* an hour is given; target_time += timedelta(hours=1) if target_time < now.
TargetTime(now, hour, minute) ==
    LET replaced == IF hour = NoHour
                    THEN <<(now[1] \div 60) * 60 + minute, 0>>
                    ELSE <<hour * 60 + minute, 0>>
    IN  IF Before(replaced, now) THEN <<replaced[1] + 60, 0>> ELSE replaced

\* poll_for_new_report(hour, minute) up to its first poll: the target time,
\* and asyncio.sleep(wait_seconds) when wait_seconds > 0.
ComputeTarget(hour, minute) ==
    /\ target_time = NotComputed
    /\ requested' = <<hour, minute>>
    /\ target_time' = TargetTime(call_time, hour, minute)
    /\ waits' = Before(call_time, target_time')
    /\ UNCHANGED call_time
    /\ UNCHANGED psc_vars
    /\ UNCHANGED fetch_vars
    /\ UNCHANGED diff_vars
    /\ UNCHANGED router_vars
    /\ UNCHANGED batch_vars
    /\ UNCHANGED extract_vars
    /\ UNCHANGED loop_vars

\* poll_for_new_report has not been called; the clock reads noon.
InitTarget ==
    /\ call_time = <<720, 0>>
    /\ requested = <<NoHour, 30>>
    /\ target_time = NotComputed
    /\ waits = FALSE

\* NBAInjuryPoller.__init__: self._running = False; no start_polling call.
InitLoops ==
    /\ loop_pc = [l \in Loops |-> "idle"]
    /\ stop_asked = {}

InitFetch ==
    /\ injury_report = <<>>
    /\ running = FALSE
    /\ f_pc = [f \in Fetchers |-> IF f = "poller" THEN "stopped" ELSE "init"]
    /\ retry_count = [f \in Fetchers |-> 0]
    /\ requests = [f \in Fetchers |-> <<>>]
    /\ last_response = [f \in Fetchers |-> NoResponse]
    /\ mr_out = [f \in Fetchers |-> Pending]
    /\ fetch_out = [f \in Fetchers |-> NoResult]
    /\ data = [f \in Fetchers |-> <<>>]
    /\ sleep_for = [f \in Fetchers |-> 0]
    /\ callback_out = NoCallback
    /\ cycles = [f \in Fetchers |-> 0]
    /\ InitLoops
    /\ InitTarget

\* The changes one compute_diff stores: one per subject.
PlayerBatches == {<<1>>, <<2>>, <<1, 2>>}

\* settings.notification: websocket only (the defaults), or email switched on.
NotifierConfigs == {{"websocket"}, {"email", "websocket"}}

\* The delivery stage under concurrent callers; the poll loops are not started.
Init ==
    /\ InitDelivery
    /\ notifiers \in NotifierConfigs
    /\ time_of_day \in TimesOfDay
    /\ InitFetch
    /\ max_retries = SettingsMaxRetries
    /\ InitDiff
    /\ InitRouter
    /\ InitBatch
    /\ InitExtract

\* Each stored batch belongs to the next report.
NextReportId ==
    IF status_change = <<>> THEN 1
    ELSE status_change[Len(status_change)].report_id + 1

Store == \E players \in PlayerBatches : StoreStatusChanges(players, NextReportId)

\* The ids of the changes a caller passes: those stored for one report.
ChangesOfReport(report_id) ==
    {i \in 1..Len(status_change) : status_change[i].report_id = report_id}

Begin ==
    \E p \in Callers, report_id \in 1..MaxChanges :
        /\ ChangesOfReport(report_id) # {}
        /\ PSC_Begin(p, ChangesOfReport(report_id))

\* Outcomes of one batch: every send succeeds, every send fails, the first
\* send fails and the others succeed.
SendOutcomes(batch) ==
    {1..Len(batch), {}, 2..Len(batch)}

SendBatch ==
    \E p \in Callers :
        /\ psc_pc[p] = "sending"
        /\ \/ \E ok \in SendOutcomes(Batch(notifications_to_send[p], next_channel[p])) :
                 PSC_SendBatch(p, ok, FALSE)
           \/ PSC_SendBatch(p, {}, TRUE)

Next == Store \/ Begin \/ SendBatch

Spec == Init /\ [][Next]_vars

\* The delivery stage when its invocations do not overlap: a call starts only
\* when no other call is suspended.
BeginInSequence ==
    /\ \A q \in Callers : psc_pc[q] # "sending"
    /\ Begin

NextSeq == Store \/ BeginInSequence \/ SendBatch

SpecSeq == Init /\ [][NextSeq]_vars

\* Time passes between the steps of the delivery stage: datetime.now().time()
\* read by a later _is_in_quiet_hours call is another time of day.
ClockAdvance ==
    /\ time_of_day' \in TimesOfDay \ {time_of_day}
    /\ UNCHANGED <<status_change, clock, notifiers, psc_pc, psc_ids,
                   db_changes, notifications_to_send, results, next_channel,
                   psc_return, invocations, sends, skipped>>
    /\ UNCHANGED fetch_vars
    /\ UNCHANGED diff_vars
    /\ UNCHANGED router_vars
    /\ UNCHANGED batch_vars
    /\ UNCHANGED extract_vars
    /\ UNCHANGED loop_vars
    /\ UNCHANGED target_vars

NextDispatch == Store \/ Begin \/ SendBatch \/ ClockAdvance

SpecDispatch == Init /\ [][NextDispatch]_vars

NextDispatchSeq == Store \/ BeginInSequence \/ SendBatch \/ ClockAdvance

SpecDispatchSeq == Init /\ [][NextDispatchSeq]_vars

\* The poll loops of a live poller and a one-shot check sharing one store.
InitPolling ==
    /\ InitDelivery
    /\ notifiers = {"websocket"}
    /\ time_of_day = Time(12, 0)
    /\ InitFetch
    /\ max_retries \in {EffectiveMaxRetries(a) : a \in MaxRetriesArgs}
    /\ InitDiff
    /\ InitRouter
    /\ InitBatch
    /\ InitExtract

Response == \E f \in Fetchers, resp \in Responses : HttpResponse(f, resp)

Insert == \E f \in Fetchers : StoreReport(f)

Wakeup == \E f \in Fetchers : Wake(f)

Callback == \E outcome \in CallbackOutcomes : CallbackDone(outcome)

NextFetch ==
    \/ StartPolling
    \/ StopPolling
    \/ StartOneShot
    \/ Response
    \/ Insert
    \/ Callback
    \/ Wakeup

SpecFetch == InitPolling /\ [][NextFetch]_vars

\* The live poller alone.  The request in flight is answered, the insert and
\* the callback end and the sleep is over after finite time; when
\* stop_polling is called is up to the caller.
PollerResponse == \E resp \in Responses : HttpResponse("poller", resp)

PollerInsert == StoreReport("poller")

PollerWake == Wake("poller")

PollerProgress == PollerResponse \/ PollerInsert \/ Callback \/ PollerWake

NextPoller == StartPolling \/ StopPolling \/ PollerProgress

SpecPoller == InitPolling /\ [][NextPoller]_vars /\ WF_vars(PollerProgress)

\* The live poller with a fetcher constructed with max_retries=0.
InitNoRetries ==
    /\ InitDelivery
    /\ notifiers = {"websocket"}
    /\ time_of_day = Time(12, 0)
    /\ InitFetch
    /\ max_retries = EffectiveMaxRetries(0)
    /\ InitDiff
    /\ InitRouter
    /\ InitBatch
    /\ InitExtract

SpecNoRetries == InitNoRetries /\ [][NextPoller]_vars

\* compute_diff called on a pair of lists of player statuses.
InitInputs ==
    /\ InitDelivery
    /\ notifiers = {"websocket"}
    /\ time_of_day = Time(12, 0)
    /\ InitFetch
    /\ max_retries = SettingsMaxRetries
    /\ current_statuses \in StatusLists
    /\ previous_statuses \in StatusLists
    /\ changes = <<>>
    /\ diff_runs = 0
    /\ processed = <<>>
    /\ InitRouter
    /\ InitBatch
    /\ InitExtract

NextDiff == ComputeDiff

SpecDiff == InitInputs /\ [][NextDiff]_vars

\* compute_diff on lists whose labels may be any the feed carries, the label
\* "ACTIVE" among them.
LabelLists ==
    UNION {[1..n -> {StatusRecord(p, st) :
                        p \in PlayerIds, st \in Statuses \cup {Baseline}}] :
               n \in 0..MaxStatuses}

InitLabels ==
    /\ InitDelivery
    /\ notifiers = {"websocket"}
    /\ time_of_day = Time(12, 0)
    /\ InitFetch
    /\ max_retries = SettingsMaxRetries
    /\ current_statuses \in LabelLists
    /\ previous_statuses \in LabelLists
    /\ changes = <<>>
    /\ diff_runs = 0
    /\ processed = <<>>
    /\ InitRouter
    /\ InitBatch
    /\ InitExtract

SpecDiffLabels == InitLabels /\ [][NextDiff]_vars

\* _is_in_quiet_hours on a user with any stored window, at any time of day.
InitQuietHours ==
    /\ InitDelivery
    /\ notifiers = {"websocket"}
    /\ time_of_day \in ClockTimes
    /\ InitFetch
    /\ max_retries = SettingsMaxRetries
    /\ InitDiff
    /\ \E start \in QuietHoursValues, end \in QuietHoursValues :
           user_table = [User EXCEPT ![1].quiet_hours_start = start,
                                     ![1].quiet_hours_end = end]
    /\ in_quiet_hours = NotCalled
    /\ InitBatch
    /\ InitExtract

NextQuietHours == CheckQuietHours(1)

SpecQuietHours == InitQuietHours /\ [][NextQuietHours]_vars

\* The router on the changes of one report, handed over by the live poller
\* once, every send succeeding.  User 1 has any global email toggle, a quiet
\* window or none, and up to MaxSettings notification settings in any stored
\* order, at most one per player and per team (create_notification_setting).
OverrideScopes == {<<1, "">>, <<2, "">>, <<0, "LAL">>}

OverrideFlags == {<<TRUE, FALSE, TRUE>>, <<FALSE, TRUE, FALSE>>}

Overrides ==
    {Setting(sc[1], sc[2], fl[1], fl[2], fl[3]) :
        sc \in OverrideScopes, fl \in OverrideFlags}

SettingLists ==
    {l \in UNION {[1..n -> Overrides] : n \in 0..MaxSettings} :
        \A i, j \in 1..Len(l) :
            (l[i].player_id = l[j].player_id /\ l[i].team = l[j].team) => i = j}

RouterNotifierConfigs ==
    {{"websocket"}, {"email", "websocket"}, {"email", "push", "websocket"}}

InitRouting ==
    /\ InitDelivery
    /\ notifiers \in RouterNotifierConfigs
    /\ time_of_day \in TimesOfDay
    /\ InitFetch
    /\ max_retries = SettingsMaxRetries
    /\ InitDiff
    /\ \E active \in BOOLEAN, email \in BOOLEAN, quiet \in BOOLEAN,
          settings \in SettingLists :
           user_table =
               [User EXCEPT
                  ![1].is_active = active,
                  ![1].email_notifications = email,
                  ![1].quiet_hours_start = IF quiet THEN Str2200 ELSE None,
                  ![1].quiet_hours_end = IF quiet THEN Str0600 ELSE None,
                  ![1].notification_settings = settings]
    /\ in_quiet_hours = NotCalled
    /\ InitBatch
    /\ InitExtract

RouterStore == status_change = <<>> /\ Store

RouterBegin ==
    /\ invocations["poll"] = 0
    /\ ChangesOfReport(1) # {}
    /\ PSC_Begin("poll", ChangesOfReport(1))

RouterSend ==
    /\ psc_pc["poll"] = "sending"
    /\ PSC_SendBatch("poll",
           1..Len(Batch(notifications_to_send["poll"], next_channel["poll"])),
           FALSE)

NextRouter == RouterStore \/ RouterBegin \/ RouterSend

SpecRouter == InitRouting /\ [][NextRouter]_vars

\* send_batch of each channel on any list of notifications, with any set of
\* connected WebSocket clients.
InitSenders ==
    /\ InitDelivery
    /\ notifiers = {"email", "push", "websocket"}
    /\ time_of_day = Time(12, 0)
    /\ InitFetch
    /\ max_retries = SettingsMaxRetries
    /\ InitDiff
    /\ InitRouter
    /\ batch_channel = "email"
    /\ batch_input = <<>>
    /\ active_connections \in SUBSET Recipients
    /\ batch_results = <<>>
    /\ send_outcomes = <<>>
    /\ batch_pc = "idle"
    /\ InitEndpoint
    /\ InitExtract

CallSendBatch ==
    \E channel \in Range(Channels), notifications \in NotificationLists :
        SendBatchCall(channel, notifications)

Send == \E e \in {NoError, "Failed to send email",
                   "Failed to send WebSocket notification",
                   "WebSocket client not connected"} : SendNotification(e)

NextSenders == CallSendBatch \/ Send

SpecSenders == InitSenders /\ [][NextSenders]_vars

\* process() on any list of player entries.
InitProcess ==
    /\ InitDelivery
    /\ notifiers = {"websocket"}
    /\ time_of_day = Time(12, 0)
    /\ InitFetch
    /\ max_retries = SettingsMaxRetries
    /\ InitDiff
    /\ InitRouter
    /\ InitBatch
    /\ InitExtract

\* One process() call.
NextExtract ==
    /\ process_out = NotProcessed
    /\ \E players \in PlayerLists : Process(players)

SpecExtract == InitProcess /\ [][NextExtract]_vars

\* poll_for_new_report called at any time of day with any arguments.
CallTimes ==
    {<<h * 60 + m, f>> : h \in {0, 9, 15, 23}, m \in {0, 29, 30, 31, 59},
                         f \in {0, 1}}

RequestedHours == {NoHour, 0, 9, 15, 23}

RequestedMinutes == {0, 30, 59}

InitCall ==
    /\ InitDelivery
    /\ notifiers = {"websocket"}
    /\ time_of_day = Time(12, 0)
    /\ injury_report = <<>>
    /\ running = FALSE
    /\ f_pc = [f \in Fetchers |-> IF f = "poller" THEN "stopped" ELSE "init"]
    /\ retry_count = [f \in Fetchers |-> 0]
    /\ requests = [f \in Fetchers |-> <<>>]
    /\ last_response = [f \in Fetchers |-> NoResponse]
    /\ mr_out = [f \in Fetchers |-> Pending]
    /\ fetch_out = [f \in Fetchers |-> NoResult]
    /\ data = [f \in Fetchers |-> <<>>]
    /\ sleep_for = [f \in Fetchers |-> 0]
    /\ callback_out = NoCallback
    /\ cycles = [f \in Fetchers |-> 0]
    /\ InitLoops
    /\ call_time \in CallTimes
    /\ requested = <<NoHour, 30>>
    /\ target_time = NotComputed
    /\ waits = FALSE
    /\ max_retries = SettingsMaxRetries
    /\ InitDiff
    /\ InitRouter
    /\ InitBatch
    /\ InitExtract

NextTarget ==
    \E hour \in RequestedHours, minute \in RequestedMinutes :
        ComputeTarget(hour, minute)

SpecTarget == InitCall /\ [][NextTarget]_vars

\* start_polling and stop_polling called on one poller in any order.
NextLoops ==
    \/ \E l \in Loops : LoopStart(l) \/ LoopCycleEnds(l) \/ LoopWakes(l)
    \/ LoopStop

SpecLoops == InitProcess /\ [][NextLoops]_vars

\* Connections opened and closed on the endpoint, in any interleaving.
NextEndpoint ==
    \E k \in Connections :
        \/ \E client_id \in Recipients : WsOpen(k, client_id)
        \/ WsAccepted(k)
        \/ WsDisconnected(k)

SpecEndpoint == InitProcess /\ [][NextEndpoint]_vars

\* process() on the successive reports of a poller: every entry complete,
\* with a status label.
StatusEntry(p, status) ==
    [PlayerEntry(p, OptionalKeys) EXCEPT !["reason"] = "reason"]
        @@ [key \in {"status"} |-> status]

SnapshotLists ==
    UNION {[1..n -> {StatusEntry(p, st) : p \in PlayerIds, st \in Statuses}] :
               n \in 0..MaxStatuses}

NextStatuses == \E players \in SnapshotLists : Process(players)

SpecStatuses == InitProcess /\ [][NextStatuses]_vars

\* The pipeline cycles of the live poller: one on_new_report per new report.
NewReport == \E statuses \in StatusLists : OnNewReport(statuses)

NextPipeline == NewReport

SpecPipeline == Init /\ [][NextPipeline]_vars

\* ------------------------------------------------------------------------
\* Properties of the delivery stage
\* ------------------------------------------------------------------------
Delivered(i) == status_change[i].notification_sent

\* C1: across overlapping process_status_changes invocations no
\* (ChangeRecord, subscriber, channel) payload is handed to a channel sender
\* more than once.
C1_NoDuplicateSend == \A k \in SendKeys : sends[k] <= 1

\* C2: when invocations do not overlap, a finished invocation has delivered
\* every record it was given, a delivered record is never written again, an
\* invocation given only delivered records returns 0 at once, building and
\* sending nothing and changing no record, and no payload is ever built for a
\* record that is already delivered.
C2_FirstDelivers ==
    \A p \in Callers :
        psc_pc[p] = "returned" => \A i \in psc_ids[p] : Delivered(i)

C2_Step ==
    /\ \A i \in 1..Len(status_change) :
           Delivered(i) => status_change'[i] = status_change[i]
    /\ \A p \in Callers :
           (/\ invocations'[p] = invocations[p] + 1
            /\ \A i \in psc_ids'[p] : Delivered(i))
           => /\ psc_pc'[p] = "returned"
              /\ psc_return'[p] = Returned(<<>>)
              /\ db_changes'[p] = {}
              /\ notifications_to_send'[p] = <<>>
              /\ status_change' = status_change
              /\ sends' = sends
    /\ \A p \in Callers :
           invocations'[p] = invocations[p] + 1
           => \A j \in 1..Len(notifications_to_send'[p]) :
                  ~Delivered(notifications_to_send'[p][j].change_id)

C2_DeliveredExactlyOnce == []C2_FirstDelivers /\ [][C2_Step]_vars

\* A second invocation on records the first one delivered has returned 0.
C2_Witness ==
    \E p \in Callers :
        /\ invocations[p] = 2
        /\ psc_pc[p] = "returned"
        /\ psc_ids[p] # {}
        /\ psc_return[p] = Returned(<<>>)
        /\ \E k \in SendKeys : k[1] \in psc_ids[p] /\ sends[k] = 1

\* C3: a ChangeRecord is created undelivered, is never deleted, and once
\* delivered neither its flag nor its delivery timestamp changes again.
C3_Step ==
    /\ Len(status_change') >= Len(status_change)
    /\ \A i \in 1..Len(status_change) :
           /\ status_change'[i].player_id = status_change[i].player_id
           /\ Delivered(i) => status_change'[i] = status_change[i]
    /\ \A i \in (Len(status_change) + 1)..Len(status_change') :
           /\ ~status_change'[i].notification_sent
           /\ status_change'[i].notification_date = 0

C3_ChangeRecordLifecycle == [][C3_Step]_vars

\* C4: the step in which a dispatch cycle that attempted sends returns leaves
\* every record the cycle selected marked delivered and timestamped, whatever
\* the sends did; a cycle selects only records that are undelivered when it
\* starts and sends only for records it selected, so nothing is re-attempted
\* for a delivered record.
C4_SendsOnlySelected ==
    \A p \in Callers :
        \A j \in 1..Len(notifications_to_send[p]) :
            notifications_to_send[p][j].change_id \in db_changes[p]

C4_Step ==
    \A p \in Callers :
        /\ (psc_pc[p] = "sending" /\ psc_pc'[p] = "returned")
           => \A i \in db_changes[p] :
                  /\ status_change'[i].notification_sent
                  /\ status_change'[i].notification_date > 0
        /\ invocations'[p] = invocations[p] + 1
           => \A i \in db_changes'[p] : ~Delivered(i)

C4_MarkedDespiteFailures == []C4_SendsOnlySelected /\ [][C4_Step]_vars

\* The only cycle so far attempted sends, its channel batches raised (it
\* returned no result), and the records it was given are marked.
C4_Witness ==
    \E p \in Callers :
        /\ Started(invocations) = 1
        /\ psc_pc[p] = "returned"
        /\ psc_ids[p] # {}
        /\ psc_return[p].notifications_sent = 0
        /\ \E k \in SendKeys : k[1] \in psc_ids[p] /\ sends[k] = 1
        /\ \A i \in psc_ids[p] :
               Delivered(i) /\ status_change[i].notification_date > 0

\* ------------------------------------------------------------------------
\* Properties of the source client and the poll loops
\* ------------------------------------------------------------------------
Stored(h) == \E i \in 1..Len(injury_report) : injury_report[i].report_hash = h

IsNew(f) == fetch_out[f].kind = "result" /\ fetch_out[f].is_new

\* C5: no two stored reports share a fingerprint, and of the fetch() calls
\* that received content with one fingerprint at most one returned is_new.
C5_UniqueFingerprint ==
    /\ \A i, j \in 1..Len(injury_report) :
           injury_report[i].report_hash = injury_report[j].report_hash => i = j
    /\ \A f, g \in Fetchers :
           (IsNew(f) /\ IsNew(g) /\ fetch_out[f].hash = fetch_out[g].hash)
           => f = g

\* Two calls both found the fingerprint absent; one stored the report, the
\* other one's insert was rejected.
C5_Witness ==
    \E f, g \in Fetchers :
        /\ IsNew(f)
        /\ data[g] = data[f]
        /\ mr_out[g].kind = "response"
        /\ fetch_out[g].kind = "FetcherError"
        /\ Len(injury_report) = 1

\* C6: a fetch() that receives content whose fingerprint is stored returns
\* is_new = false with that fingerprint and stores nothing; one that stores
\* the report adds exactly one row and returns is_new = true with its id.
C6_Step ==
    \A f \in Fetchers :
        /\ (/\ f_pc[f] = "request"
            /\ mr_out'[f].kind = "response"
            /\ Stored(generate_hash(data'[f])))
           => /\ fetch_out'[f] = FetchResult(FALSE, generate_hash(data'[f]), 0)
              /\ injury_report' = injury_report
        /\ (f_pc[f] = "insert" /\ IsNew(f)')
           => /\ Len(injury_report') = Len(injury_report) + 1
              /\ fetch_out'[f].report_id = Len(injury_report')
              /\ injury_report'[Len(injury_report')].report_hash
                     = generate_hash(data[f])
              /\ fetch_out'[f].hash = generate_hash(data[f])
        /\ (/\ f_pc[f] = "insert"
            /\ f_pc'[f] # "insert"
            /\ ~Stored(generate_hash(data[f])))
           => IsNew(f)'

C7_RateLimitWait ==
    (/\ f_pc["poller"] = "sleep"
     /\ last_response["poller"].status = 429
     /\ mr_out["poller"].kind = "FetcherError")
    => sleep_for["poller"] = mr_out["poller"].retry_after

\* C8: a 429 response ends _make_request with a rate-limit error carrying the
\* Retry-After wait (60 without header), with no further request.
C8_RateLimitRaises ==
    \A f \in Fetchers :
        last_response[f].status = 429
        => /\ mr_out[f] = FetcherError(429,
                  IF last_response[f].header.present
                  THEN last_response[f].header.value ELSE DefaultRetryAfter)
           /\ f_pc[f] # "request"

Transient(resp) ==
    \/ resp.kind \in {"timeout", "request_error"}
    \/ resp.kind = "status" /\ resp.status >= 400 /\ resp.status # 429

\* C9: one _make_request issues at most max_retries + 1 requests, all with
\* the same method, URL and parameters; it gives up on a transient failure
\* only with the budget spent and then raises FetcherError; a success returns
\* the response and ends the call.
C9_RetryBudget ==
    \A f \in Fetchers :
        /\ Len(requests[f]) <= max_retries + 1
        /\ \A i \in 1..Len(requests[f]) :
               requests[f][i] = Request("GET", BaseUrl \o InjuryReportEndpoint, None)
        /\ (Transient(last_response[f]) /\ f_pc[f] # "request")
               => /\ mr_out[f].kind = "FetcherError"
                  /\ Len(requests[f]) = max_retries + 1
        /\ (Transient(last_response[f]) /\ f_pc[f] = "request")
               => /\ mr_out[f] = Pending
                  /\ Len(requests[f]) <= max_retries
        /\ last_response[f].status = 200
               => mr_out[f] = ReturnedResponse /\ f_pc[f] # "request"

\* A call has spent its whole budget and raised after a timeout.
C9_Witness ==
    \E f \in Fetchers :
        /\ mr_out[f].kind = "FetcherError"
        /\ last_response[f].kind = "timeout"
        /\ Len(requests[f]) = max_retries + 1
        /\ max_retries = SettingsMaxRetries

\* C10: when the retries are spent on an HTTP error status, the error fetch()
\* raises carries that status.
C10_SurfacedStatus ==
    \A f \in Fetchers :
        (/\ fetch_out[f].kind = "FetcherError"
         /\ last_response[f].kind = "status"
         /\ last_response[f].status >= 400
         /\ last_response[f].status # 429)
        => fetch_out[f].status_code = last_response[f].status

\* C11: a FetcherError without a rate-limit wait raised in a poll cycle does
\* not end start_polling: the step that catches it invokes no callback,
\* leaves the running flag alone and starts a sleep of poll_interval, and the
\* running loop leaves that sleep only into the next fetch.
C11_Step ==
    /\ (/\ f_pc["poller"] \in {"request", "insert"}
        /\ fetch_out'["poller"].kind = "FetcherError"
        /\ fetch_out'["poller"].retry_after = -1)
       => /\ f_pc'["poller"] = "sleep"
          /\ sleep_for'["poller"] = PollInterval
          /\ running' = running
          /\ callback_out' = callback_out
    /\ (/\ f_pc["poller"] = "sleep"
        /\ fetch_out["poller"].kind = "FetcherError"
        /\ f_pc'["poller"] # "sleep"
        /\ running)
       => /\ f_pc'["poller"] = "request"
          /\ cycles'["poller"] = cycles["poller"] + 1
          /\ requests'["poller"] = <<>>

C11_FetchErrorKeepsPolling ==
    [](f_pc["poller"] # "failed") /\ [][C11_Step]_vars

\* The poller has caught the error of a cycle whose retries a 503 exhausted
\* and sleeps poll_interval, still running.
C11_Witness ==
    /\ f_pc["poller"] = "sleep"
    /\ running
    /\ fetch_out["poller"].kind = "FetcherError"
    /\ last_response["poller"].status = 503
    /\ sleep_for["poller"] = PollInterval
    /\ callback_out = NoCallback

\* C12: a ProcessorError raised while on_new_report handles a new report ends
\* only that cycle: start_polling goes on to its sleep of poll_interval with
\* the running flag unchanged, and from there to the next fetch.
C12_Step ==
    /\ (f_pc["poller"] = "callback" /\ callback_out' = "ProcessorError")
       => /\ f_pc'["poller"] = "sleep"
          /\ sleep_for'["poller"] = PollInterval
          /\ running' = running
          /\ injury_report' = injury_report
    /\ (/\ f_pc["poller"] = "sleep"
        /\ callback_out = "ProcessorError"
        /\ f_pc'["poller"] # "sleep"
        /\ running)
       => /\ f_pc'["poller"] = "request"
          /\ cycles'["poller"] = cycles["poller"] + 1

C12_ProcessingErrorKeepsPolling ==
    [](callback_out = "ProcessorError" => f_pc["poller"] \in {"sleep", "stopped"})
    /\ [][C12_Step]_vars

\* on_new_report met a ProcessorError and the loop, still running, sleeps.
C12_Witness ==
    /\ f_pc["poller"] = "sleep"
    /\ running
    /\ callback_out = "ProcessorError"
    /\ IsNew("poller")

\* C13: once stop_polling has cleared the flag, start_polling begins no new
\* fetch cycle and eventually returns; the step of stop_polling itself leaves
\* the work in flight as it is.
C13_Step ==
    /\ (~running /\ f_pc["poller"] # "stopped")
       => /\ cycles'["poller"] = cycles["poller"]
          /\ f_pc'["poller"] # "request" \/ f_pc["poller"] = "request"
    /\ (running /\ ~running')
       => UNCHANGED <<f_pc, retry_count, requests, last_response, mr_out,
                      fetch_out, data, sleep_for, callback_out, cycles,
                      injury_report>>

C13_Stopping == ~running /\ f_pc["poller"] # "stopped"

C13_CooperativeStop ==
    [][C13_Step]_vars /\ (C13_Stopping ~> (f_pc["poller"] = "stopped"))

\* stop_polling was called during a fetch that then stored a new report and
\* ran the callback; the loop has returned after it.
C13_Witness ==
    /\ f_pc["poller"] = "stopped"
    /\ ~running
    /\ cycles["poller"] >= 1
    /\ callback_out # NoCallback

\* C14: start_polling enters the callback exactly in the step in which the
\* cycle's fetch returns is_new = true; a fetch that returns is_new = false or
\* raises never does, and a fingerprint stored before the fetch received its
\* content never reaches the callback.
C14_Step ==
    /\ (f_pc["poller"] # "callback" /\ f_pc'["poller"] = "callback")
       => /\ IsNew("poller")'
          /\ f_pc["poller"] = "insert"
          /\ ~Stored(fetch_out'["poller"].hash)
          /\ \E i \in 1..Len(injury_report') :
                 injury_report'[i].report_hash = fetch_out'["poller"].hash
    /\ (f_pc["poller"] \in {"request", "insert"} /\ IsNew("poller")')
       => f_pc'["poller"] = "callback"
    /\ (/\ f_pc["poller"] = "request"
        /\ mr_out'["poller"].kind = "response"
        /\ Stored(generate_hash(data'["poller"])))
       => /\ f_pc'["poller"] = "sleep"
          /\ callback_out' = NoCallback

C14_CallbackIffNew ==
    [](f_pc["poller"] = "callback" => IsNew("poller")) /\ [][C14_Step]_vars

\* In its second cycle the poller is in the callback for a report it stored.
C14_Witness ==
    /\ f_pc["poller"] = "callback"
    /\ IsNew("poller")
    /\ cycles["poller"] = 2
    /\ Len(injury_report) >= 1

\* C15: poll_for_new_report returns only in the step in which a poll returns
\* is_new = true and makes no poll after it; after a duplicate result or an
\* error of the fetch it sleeps poll_interval and polls again.
C15_Step ==
    /\ (f_pc["oneshot"] # "done" /\ f_pc'["oneshot"] = "done")
       => IsNew("oneshot")'
    /\ (f_pc["oneshot"] \in {"request", "insert"} /\ IsNew("oneshot")')
       => f_pc'["oneshot"] = "done"
    /\ f_pc["oneshot"] = "done"
       => UNCHANGED <<f_pc["oneshot"], requests["oneshot"], cycles["oneshot"],
                      fetch_out["oneshot"]>>
    /\ (/\ f_pc["oneshot"] \in {"request", "insert"}
        /\ fetch_out'["oneshot"].kind # "pending"
        /\ ~IsNew("oneshot")')
       => /\ f_pc'["oneshot"] = "sleep"
          /\ sleep_for'["oneshot"] = PollInterval
    /\ (f_pc["oneshot"] = "sleep" /\ f_pc'["oneshot"] # "sleep")
       => /\ f_pc'["oneshot"] = "request"
          /\ cycles'["oneshot"] = cycles["oneshot"] + 1

C15_OneShotReturnsFirstNew ==
    [](f_pc["oneshot"] = "done" => IsNew("oneshot")) /\ [][C15_Step]_vars

\* The one-shot check returned a new report from its second poll.
C15_Witness ==
    /\ f_pc["oneshot"] = "done"
    /\ IsNew("oneshot")
    /\ cycles["oneshot"] = 2

\* ------------------------------------------------------------------------
\* Properties of the diff engine and the pipeline cycle
\* ------------------------------------------------------------------------
\* The label of a subject that a list names once.
LabelOf(statuses, player_id) ==
    statuses[CHOOSE i \in 1..Len(statuses) :
                 statuses[i].player_id = player_id].status

\* Added, removed and changed subjects of two lists that name no subject twice.
ExpectedIds(current, previous) ==
    (Ids(current) \ Ids(previous))
    \cup (Ids(previous) \ Ids(current))
    \cup {p \in Ids(current) \cap Ids(previous) :
             LabelOf(current, p) # LabelOf(previous, p)}

RecordsOf(diff, player_id) ==
    {i \in 1..Len(diff) : diff[i].player_id = player_id}

InputsUnique == UniqueIds(current_statuses) /\ UniqueIds(previous_statuses)

\* C16: for lists with unique subject ids the subjects of compute_diff's
\* output are exactly those only in current, only in previous, or in both
\* with different labels; a subject with the same label in both has no
\* ChangeRecord and no stored row.
C16_DiffCompleteness ==
    (diff_runs >= 1 /\ InputsUnique)
    => /\ {changes[i].player_id : i \in 1..Len(changes)}
              = ExpectedIds(current_statuses, previous_statuses)
       /\ \A p \in Ids(current_statuses) \cap Ids(previous_statuses) :
              LabelOf(current_statuses, p) = LabelOf(previous_statuses, p)
              => /\ RecordsOf(changes, p) = {}
                 /\ \A i \in 1..Len(status_change) :
                        status_change[i].player_id # p

\* One subject is unchanged in both lists, the other one changed.
C16_Witness ==
    /\ diff_runs >= 1
    /\ InputsUnique
    /\ Len(changes) = 1
    /\ \E p \in Ids(current_statuses) \cap Ids(previous_statuses) :
           LabelOf(current_statuses, p) = LabelOf(previous_statuses, p)
    /\ Len(status_change) = 1

\* C17: compute_diff emits at most one ChangeRecord per subject; for lists
\* that name each subject once, a subject in both lists with different labels
\* has exactly one, previous label -> current label, and a subject only in
\* current has exactly one, null -> current label; previous [{1,OUT}] against
\* current [{1,QUESTIONABLE},{2,OUT}] gives exactly (1, OUT -> QUESTIONABLE)
\* and (2, null -> OUT).
C17_ChangedAndAdded ==
    diff_runs >= 1
    => /\ \A p \in PlayerIds : Cardinality(RecordsOf(changes, p)) <= 1
       /\ InputsUnique
          => /\ \A p \in Ids(current_statuses) \cap Ids(previous_statuses) :
                    LabelOf(current_statuses, p) # LabelOf(previous_statuses, p)
                    => /\ Cardinality(RecordsOf(changes, p)) = 1
                       /\ \A i \in RecordsOf(changes, p) :
                              /\ changes[i].old_status
                                     = LabelOf(previous_statuses, p)
                              /\ changes[i].new_status
                                     = LabelOf(current_statuses, p)
             /\ \A p \in Ids(current_statuses) \ Ids(previous_statuses) :
                    /\ Cardinality(RecordsOf(changes, p)) = 1
                    /\ \A i \in RecordsOf(changes, p) :
                           /\ changes[i].old_status = "null"
                           /\ changes[i].new_status
                                  = LabelOf(current_statuses, p)
       /\ (/\ previous_statuses = <<[player_id |-> 1, status |-> "OUT"]>>
           /\ current_statuses = <<[player_id |-> 1, status |-> "QUESTIONABLE"],
                                   [player_id |-> 2, status |-> "OUT"]>>)
          => /\ Len(changes) = 2
             /\ Range(changes) =
                    {[player_id |-> 1, old_status |-> "OUT",
                      new_status |-> "QUESTIONABLE"],
                     [player_id |-> 2, old_status |-> "null",
                      new_status |-> "OUT"]}

\* compute_diff has run on the lists of the scenario.
C17_Witness ==
    /\ diff_runs >= 1
    /\ previous_statuses = <<[player_id |-> 1, status |-> "OUT"]>>
    /\ current_statuses = <<[player_id |-> 1, status |-> "QUESTIONABLE"],
                            [player_id |-> 2, status |-> "OUT"]>>
    /\ Len(changes) = 2

\* C18: for lists that name each subject once, a subject only in previous has
\* exactly one ChangeRecord, previous label -> ACTIVE; against an empty
\* current list the output is one such record per previous subject and
\* nothing else.
C18_RemovedToBaseline ==
    (diff_runs >= 1 /\ InputsUnique)
    => /\ \A p \in Ids(previous_statuses) \ Ids(current_statuses) :
              /\ Cardinality(RecordsOf(changes, p)) = 1
              /\ \A i \in RecordsOf(changes, p) :
                     /\ changes[i].old_status = LabelOf(previous_statuses, p)
                     /\ changes[i].new_status = "ACTIVE"
       /\ (current_statuses = <<>> /\ previous_statuses # <<>>)
          => /\ Len(changes) = Len(previous_statuses)
             /\ \A i \in 1..Len(changes) :
                    /\ changes[i].player_id \in Ids(previous_statuses)
                    /\ changes[i].new_status = "ACTIVE"

\* Two previous subjects were diffed against an empty current list.
C18_Witness ==
    /\ diff_runs >= 1
    /\ current_statuses = <<>>
    /\ previous_statuses = <<[player_id |-> 1, status |-> "QUESTIONABLE"],
                             [player_id |-> 2, status |-> "OUT"]>>
    /\ Len(changes) = 2

Reorderings(statuses) ==
    {[i \in 1..Len(statuses) |-> statuses[f[i]]] :
        f \in Permutations(1..Len(statuses))}

OrderIndependent ==
    \A c \in Reorderings(current_statuses), p \in Reorderings(previous_statuses) :
        Range(DiffChanges(c, p)) = Range(changes)

SameAgain == diff_runs >= 1 => Range(changes') = Range(changes)

\* C19 as stated: a second compute_diff on the same lists yields the same set
\* of ChangeRecords, and so does compute_diff on the lists in any other
\* order of their records.
C19_DiffDeterminism ==
    [](diff_runs >= 1 => OrderIndependent) /\ [][SameAgain]_vars

\* C19 amended: a second compute_diff on the same lists yields the same set
\* of ChangeRecords; when each list names a subject at most once, so does
\* compute_diff on the lists in any other order of their records.
C19_DiffDeterminismUniqueIds ==
    []((diff_runs >= 1 /\ InputsUnique) => OrderIndependent)
    /\ [][SameAgain]_vars

\* compute_diff has run twice on two lists of two subjects each.
C19_Witness ==
    /\ diff_runs = 2
    /\ InputsUnique
    /\ Len(current_statuses) = 2
    /\ Len(previous_statuses) = 2
    /\ changes # <<>>

RowsOf(player_id, report_id) ==
    {i \in 1..Len(status_change) :
        /\ status_change[i].player_id = player_id
        /\ status_change[i].report_id = report_id}

\* C20: after any sequence of pipeline cycles the stored ChangeRecords hold at
\* most one row per (subject, report), and exactly one for each subject whose
\* status differs between that report and the one before it.
C20_OneRecordPerChange ==
    \A r \in 2..Len(processed) :
        \A p \in PlayerIds :
            /\ Cardinality(RowsOf(p, r)) <= 1
            /\ (/\ UniqueIds(processed[r])
                /\ UniqueIds(processed[r - 1])
                /\ p \in ExpectedIds(processed[r], processed[r - 1]))
               => Cardinality(RowsOf(p, r)) = 1

\* C21: when on_new_report has handled a snapshot that has a predecessor, the
\* ChangeRecords it created are the diff against that predecessor: a subject
\* with the same status in both has no ChangeRecord and no stored row, and a
\* subject whose status differs has a ChangeRecord whose old status is its
\* status in the preceding snapshot, and a stored row.
C21_DiffAgainstPreceding ==
    Len(processed) >= 2 =>
        LET current == processed[Len(processed)]
            previous == processed[Len(processed) - 1]
        IN  (UniqueIds(current) /\ UniqueIds(previous)) =>
                \A p \in Ids(current) \cap Ids(previous) :
                    IF LabelOf(current, p) = LabelOf(previous, p)
                    THEN /\ RecordsOf(changes, p) = {}
                         /\ RowsOf(p, Len(processed)) = {}
                    ELSE /\ \E i \in RecordsOf(changes, p) :
                                /\ changes[i].old_status = LabelOf(previous, p)
                                /\ changes[i].new_status = LabelOf(current, p)
                         /\ RowsOf(p, Len(processed)) # {}

\* ------------------------------------------------------------------------
\* Properties of the notification router
\* ------------------------------------------------------------------------
\* A bound in HH:MM form with hour 0..23 and minute 0..59 ...
WellFormed(s) ==
    /\ Len(s) = 5
    /\ s[3] = ":"
    /\ \A i \in {1, 2, 4, 5} : s[i] \in Range(Digits)
    /\ 10 * DigitValue(s[1]) + DigitValue(s[2]) <= 23
    /\ 10 * DigitValue(s[4]) + DigitValue(s[5]) <= 59

\* ... and the minute of the day it names.
MinuteOf(s) ==
    60 * (10 * DigitValue(s[1]) + DigitValue(s[2]))
    + 10 * DigitValue(s[4]) + DigitValue(s[5])

Called == in_quiet_hours # NotCalled

WindowStart == user_table[in_quiet_hours.user].quiet_hours_start

WindowEnd == user_table[in_quiet_hours.user].quiet_hours_end

OnTheMinute == time_of_day[2] = 0

WindowIs(start, end) == WindowStart = start /\ WindowEnd = end

\* C22: for a window with both bounds present and well-formed and a current
\* time on the minute, _is_in_quiet_hours answers true iff start <= end and
\* start <= now <= end, or start > end and (now >= start or now <= end);
\* 22:00-06:00 suppresses at 23:30 and not at 12:00, 09:00-17:00 suppresses at
\* 12:00 and not at 20:00.
C22_QuietHoursWindow ==
    (Called /\ OnTheMinute /\ WindowStart # None /\ WindowEnd # None)
    => /\ (WellFormed(WindowStart) /\ WellFormed(WindowEnd)) =>
              LET start == MinuteOf(WindowStart)
                  end == MinuteOf(WindowEnd)
                  now == time_of_day[1]
              IN  in_quiet_hours.result
                      <=> \/ start <= end /\ start <= now /\ now <= end
                          \/ start > end /\ (now >= start \/ now <= end)
       /\ (WindowIs(Str2200, Str0600) /\ time_of_day = Time(23, 30))
              => in_quiet_hours.result
       /\ (WindowIs(Str2200, Str0600) /\ time_of_day = Time(12, 0))
              => ~in_quiet_hours.result
       /\ (WindowIs(Str0900, Str1700) /\ time_of_day = Time(12, 0))
              => in_quiet_hours.result
       /\ (WindowIs(Str0900, Str1700) /\ time_of_day = Time(20, 0))
              => ~in_quiet_hours.result

C22_Witness ==
    /\ Called
    /\ WindowIs(Str2200, Str0600)
    /\ time_of_day = Time(23, 30)
    /\ in_quiet_hours.result

\* The stored values on which the parse raises: hour or minute out of range,
\* no colon, two colons, a letter, a negative hour.
Unparsable ==
    {<<"2", "4", ":", "0", "0">>,
     <<"1", "2", ":", "6", "0">>,
     <<"2", "2", "0", "0">>,
     <<"2", "2", ":", "0", "0", ":", "0", "0">>,
     <<"2", "x", ":", "0", "0">>,
     <<"-", "1", ":", "0", "0">>}

\* C23: _is_in_quiet_hours answers false whenever a bound of the window is
\* absent or malformed (not HH:MM, or hour or minute out of range), at every
\* current time.
C23_MalformedNeverSuppresses ==
    (/\ Called
     /\ \/ WindowStart = None
        \/ WindowEnd = None
        \/ ~WellFormed(WindowStart)
        \/ ~WellFormed(WindowEnd))
    => ~in_quiet_hours.result

\* C23 (amended): _is_in_quiet_hours answers false whenever a bound of the
\* window is absent or its parse raises, at every current time.
C23_UnparsableNeverSuppresses ==
    (/\ Called
     /\ \/ WindowStart = None
        \/ WindowEnd = None
        \/ WindowStart \in Unparsable
        \/ WindowEnd \in Unparsable)
    => ~in_quiet_hours.result

C23_Witness ==
    /\ Called
    /\ WindowStart = Str2200
    /\ WindowEnd \in Unparsable
    /\ time_of_day = Time(23, 30)
    /\ ~in_quiet_hours.result

\* The changes the poller's call has routed: those it selected, marked as
\* notified once it has returned.
RoutedChanges ==
    IF psc_pc["poll"] = "sending" THEN db_changes["poll"]
    ELSE {c \in 1..Len(status_change) : status_change[c].notification_sent}

\* A payload was built for the change c, the user u and the channel ch: it is
\* in notifications_to_send, or has been handed to its channel.
Built(c, u, ch) ==
    IF psc_pc["poll"] = "sending"
    THEN \E i \in 1..Len(notifications_to_send["poll"]) :
             SendKey(notifications_to_send["poll"][i]) = <<c, u, ch>>
    ELSE sends[<<c, u, ch>>] >= 1

SettingsOf(u) == user_table[u].notification_settings

\* The stored positions of the overrides of u scoped to the subject of c ...
SubjectOverrides(u, c) ==
    {i \in 1..Len(SettingsOf(u)) :
        SettingsOf(u)[i].player_id = status_change[c].player_id}

\* ... and to the team of that subject.
GroupOverrides(u, c) ==
    {i \in 1..Len(SettingsOf(u)) :
        SettingsOf(u)[i].team = Player[status_change[c].player_id].team}

Candidate(u, c) ==
    /\ user_table[u].is_active
    /\ SubjectOverrides(u, c) \cup GroupOverrides(u, c) # {}

Suppressed(u) == IsInQuietHours(u, time_of_day)

FlagOf(ns, ch) ==
    CASE ch = "email" -> ns.email_enabled
      [] ch = "push" -> ns.push_enabled
      [] ch = "websocket" -> ns.web_enabled

GlobalFlag(u, ch) ==
    CASE ch = "email" -> user_table[u].email_notifications
      [] ch = "push" -> user_table[u].push_notifications
      [] ch = "websocket" -> user_table[u].web_notifications

First(S) == CHOOSE i \in S : \A j \in S : i <= j

\* Subject-scoped override > group-scoped override > global toggle.
Effective(u, c, ch) ==
    IF SubjectOverrides(u, c) # {}
    THEN FlagOf(SettingsOf(u)[First(SubjectOverrides(u, c))], ch)
    ELSE IF GroupOverrides(u, c) # {}
    THEN FlagOf(SettingsOf(u)[First(GroupOverrides(u, c))], ch)
    ELSE GlobalFlag(u, ch)

\* C24: a candidate subscriber who is in quiet hours when a change is routed
\* has no payload built for that change, on any channel.
C24_QuietHoursSkipEntirely ==
    \A c \in RoutedChanges, u \in Range(UserIds) :
        (Candidate(u, c) /\ Suppressed(u))
        => \A ch \in Range(Channels) : ~Built(c, u, ch)

C24_Witness ==
    /\ psc_pc["poll"] = "sending"
    /\ \E c \in RoutedChanges :
           /\ Candidate(1, c) /\ Suppressed(1)
           /\ \E ch \in Range(Channels) :
                  FlagOf(SettingsOf(1)[First(SubjectOverrides(1, c)
                                             \cup GroupOverrides(1, c))], ch)
                  /\ ch \in notifiers
           /\ \E ch \in Range(Channels) : Built(c, 2, ch)

\* C25: for a routed change and a candidate subscriber outside quiet hours who
\* holds both a subject-scoped and a group-scoped override matching the change
\* with different channel flags, the channels of the payloads built are those
\* the subject-scoped override enables (and the service has a sender for),
\* whatever the stored order of the two overrides.
C25_SubjectOverrideWins ==
    \A c \in RoutedChanges, u \in Range(UserIds) :
        (/\ Candidate(u, c)
         /\ ~Suppressed(u)
         /\ SubjectOverrides(u, c) # {}
         /\ GroupOverrides(u, c) # {})
        => \A ch \in Range(Channels) :
               Built(c, u, ch)
                   <=> /\ FlagOf(SettingsOf(u)[First(SubjectOverrides(u, c))], ch)
                       /\ ch \in notifiers

\* C26: an active subscriber outside quiet hours with global email off and a
\* subject-scoped override with email on has an email payload built for a
\* routed change of that subject when the email channel is configured, and
\* none for a routed change of a subject for which the subscriber has neither
\* a subject-scoped nor a group-scoped override.
C26_PreferencePrecedence ==
    \A c \in RoutedChanges, u \in Range(UserIds) :
        (/\ user_table[u].is_active
         /\ ~Suppressed(u)
         /\ ~user_table[u].email_notifications
         /\ \E i \in 1..Len(SettingsOf(u)) :
                /\ SettingsOf(u)[i].player_id \in PlayerIds
                /\ SettingsOf(u)[i].email_enabled)
        => /\ (/\ "email" \in notifiers
               /\ SubjectOverrides(u, c) # {}
               /\ \A i \in SubjectOverrides(u, c) : SettingsOf(u)[i].email_enabled)
              => Built(c, u, "email")
           /\ (SubjectOverrides(u, c) = {} /\ GroupOverrides(u, c) = {})
              => ~Built(c, u, "email")

\* C27: a payload is built for a subscriber and a change only if the
\* subscriber is active and has an override scoped to the changed subject or
\* to its team.
C27_OnlyActiveSubscribersWithOverride ==
    \A c \in 1..Len(status_change), u \in Range(UserIds), ch \in Range(Channels) :
        Built(c, u, ch) => Candidate(u, c)

C27_Witness ==
    /\ psc_pc["poll"] = "sending"
    /\ \E c \in RoutedChanges :
           /\ \E ch \in Range(Channels) : Built(c, 2, ch)
           /\ ~user_table[3].is_active
           /\ SubjectOverrides(3, c) # {}
           /\ ~Suppressed(3)
           /\ \A ch \in Range(Channels) : ~Built(c, 3, ch)
    /\ \E c \in RoutedChanges :
           /\ user_table[1].is_active
           /\ ~Suppressed(1)
           /\ user_table[1].web_notifications
           /\ SubjectOverrides(1, c) \cup GroupOverrides(1, c) = {}
           /\ \A ch \in Range(Channels) : ~Built(c, 1, ch)

\* C28: for every routed change and every candidate subscriber outside quiet
\* hours, the channels of the payloads built are exactly the channels whose
\* effective flag (subject-scoped override, else group-scoped override, else
\* global toggle) is on and whose sender the service holds, and every payload
\* carries the id of a routed change and of a candidate subscriber of it.
C28_PayloadPerEnabledChannel ==
    /\ \A c \in RoutedChanges, u \in Range(UserIds) :
           (Candidate(u, c) /\ ~Suppressed(u))
           => \A ch \in Range(Channels) :
                  Built(c, u, ch) <=> (Effective(u, c, ch) /\ ch \in notifiers)
    /\ \A i \in 1..Len(notifications_to_send["poll"]) :
           LET n == notifications_to_send["poll"][i]
           IN  /\ n.change_id \in db_changes["poll"]
               /\ Candidate(n.user_id, n.change_id)
               /\ n.channel \in notifiers

\* ------------------------------------------------------------------------
\* Properties of the channel senders
\* ------------------------------------------------------------------------
\* C29: send_batch of every channel, on every list: the results hold one
\* entry per notification attempted so far, in input order; the entry of a
\* send that raised has success = false, the error string, the channel and
\* the recipient; the call ends only after every notification was attempted,
\* and then returns one entry per input notification.
C29_BatchResultPerNotification ==
    /\ batch_pc \in {"idle", "sending", "returned"}
    /\ Len(batch_results) = Len(send_outcomes)
    /\ Len(send_outcomes) <= Len(batch_input)
    /\ \A i \in 1..Len(batch_results) :
           /\ batch_results[i].recipient = batch_input[i].recipient
           /\ batch_results[i].channel = batch_channel
           /\ batch_results[i].success <=> send_outcomes[i] = NoError
           /\ batch_results[i].error = send_outcomes[i]
    /\ batch_pc = "returned" => Len(batch_results) = Len(batch_input)

C29_Witness ==
    /\ batch_pc = "returned"
    /\ batch_channel = "websocket"
    /\ Len(batch_input) = 2
    /\ batch_input[1].recipient # batch_input[2].recipient
    /\ send_outcomes[1] # NoError
    /\ send_outcomes[2] = NoError
    /\ ~batch_results[1].success
    /\ batch_results[2].success

\* ------------------------------------------------------------------------
\* Properties of the normalization
\* ------------------------------------------------------------------------
Processed == process_out # NotProcessed

\* The record of an entry holds the entry's value of the key as field, null
\* when the entry lacks the key.
Carries(record_value, entry, key) ==
    IF key \in DOMAIN entry THEN record_value = entry[key]
    ELSE record_value = Null

\* C30: _extract_player_statuses yields one record per entry of the player
\* list, in order; the record of an entry lacking reason, details, game date
\* or opponent has that field null; process() fails only on a list with an
\* entry that lacks its status, never for a missing optional field.
C30_ExtractToleratesMissingFields ==
    Processed =>
        /\ Len(player_statuses) = Len(report_players)
        /\ \A i \in 1..Len(report_players) :
               /\ player_statuses[i].player_id = report_players[i].personId
               /\ Carries(player_statuses[i].reason, report_players[i], "reason")
               /\ Carries(player_statuses[i].details, report_players[i], "details")
               /\ Carries(player_statuses[i].game_date, report_players[i],
                          "gameDate")
               /\ Carries(player_statuses[i].opponent, report_players[i],
                          "opponent")
        /\ (\A i \in 1..Len(report_players) :
                "status" \in DOMAIN report_players[i])
           => process_out = "returned"

C30_Witness ==
    /\ process_out = "returned"
    /\ Len(report_players) = 2
    /\ report_players[1].personId = "2"
    /\ report_players[2].personId = "1"
    /\ DOMAIN report_players[1] = RequiredKeys \cup {"status"}
    /\ DOMAIN report_players[2]
           = RequiredKeys \cup {"status"} \cup (OptionalKeys \ {"reason"})
    /\ player_statuses[1].opponent = Null
    /\ player_statuses[2].reason = Null
    /\ player_statuses[2].opponent = "opponent"

\* ------------------------------------------------------------------------
\* Properties of the stored player statuses
\* ------------------------------------------------------------------------
\* The rows of the player in the report.
StatusRowsOf(player_id, report_id) ==
    {i \in 1..Len(injury_status) :
        /\ injury_status[i].player_id = player_id
        /\ injury_status[i].report_id = report_id}

\* C31: an InjuryStatus row of a player whose status differs from the
\* player's status in the immediately preceding report has is_status_change
\* set and previous_status equal to that earlier status; a row whose status
\* equals the earlier one has is_status_change false.
C31_StatusChangeFlag ==
    \A i \in 1..Len(injury_status) :
        \A j \in StatusRowsOf(injury_status[i].player_id,
                              injury_status[i].report_id - 1) :
            IF injury_status[i].status # injury_status[j].status
            THEN /\ injury_status[i].is_status_change
                 /\ injury_status[i].previous_status = injury_status[j].status
            ELSE ~injury_status[i].is_status_change

\* ------------------------------------------------------------------------
\* Further properties of the diff engine
\* ------------------------------------------------------------------------
\* C32: every change compute_diff builds has old_status different from
\* new_status, the changes of players removed from the report included.
C32_NoSelfTransition ==
    diff_runs >= 1
    => \A i \in 1..Len(changes) : changes[i].old_status # changes[i].new_status

\* ------------------------------------------------------------------------
\* Further properties of the delivery stage
\* ------------------------------------------------------------------------
\* C33: a call that selects changes and builds no payload for them marks
\* every one of them delivered; once the router has skipped a user for a
\* change because of quiet hours, no call that starts later builds a payload
\* of that change for that user.
C33_Step ==
    /\ \A p \in Callers :
           (/\ invocations'[p] = invocations[p] + 1
            /\ BuildNotifications(status_change,
                                  UndeliveredChanges(status_change, psc_ids'[p]),
                                  time_of_day, notifiers) = <<>>)
           => \A i \in UndeliveredChanges(status_change, psc_ids'[p]) :
                  status_change'[i].notification_sent
    /\ \A p \in Callers :
           invocations'[p] = invocations[p] + 1
           => \A j \in 1..Len(notifications_to_send'[p]) :
                  <<notifications_to_send'[p][j].change_id,
                    notifications_to_send'[p][j].user_id>> \notin skipped

C33_SuppressedNeverNotified == [][C33_Step]_vars

\* ------------------------------------------------------------------------
\* Further properties of the poll loops
\* ------------------------------------------------------------------------
\* C34: the callback of start_polling is entered at most once per
\* fingerprint: it is entered only for a fingerprint that was not stored
\* before the step and is stored by it, stored reports are never removed or
\* altered, the report is still stored when the callback has failed, and
\* every later fetch of content with a stored fingerprint returns
\* is_new = false or raises, so that the loop sleeps without entering the
\* callback.
C34_Step ==
    /\ (f_pc["poller"] # "callback" /\ f_pc'["poller"] = "callback")
       => LET h == fetch_out'["poller"].hash
          IN  /\ \A i \in 1..Len(injury_report) :
                     injury_report[i].report_hash # h
              /\ Cardinality({i \in 1..Len(injury_report') :
                                 injury_report'[i].report_hash = h}) = 1
    /\ Len(injury_report') >= Len(injury_report)
    /\ \A i \in 1..Len(injury_report) : injury_report'[i] = injury_report[i]
    /\ (f_pc["poller"] = "callback" /\ f_pc'["poller"] # "callback")
       => /\ callback_out' \in CallbackOutcomes
          /\ f_pc'["poller"] = "sleep"
          /\ \E i \in 1..Len(injury_report') :
                 injury_report'[i].report_hash = fetch_out["poller"].hash
    /\ \A f \in Fetchers :
           (/\ f_pc[f] = "request"
            /\ mr_out'[f].kind = "response"
            /\ \E i \in 1..Len(injury_report) :
                   injury_report[i].report_hash = generate_hash(data'[f]))
           => /\ fetch_out'[f] = FetchResult(FALSE, generate_hash(data'[f]), 0)
              /\ f_pc'[f] = "sleep"

C34_CallbackOncePerFingerprint == [][C34_Step]_vars

\* The poller's first cycle stored a report and its callback failed; its
\* second cycle fetched the same content and got is_new = false.
C34_Witness ==
    /\ cycles["poller"] = 2
    /\ f_pc["oneshot"] = "init"
    /\ Len(injury_report) = 1
    /\ f_pc["poller"] = "sleep"
    /\ fetch_out["poller"] =
           FetchResult(FALSE, injury_report[1].report_hash, 0)

C36_Step ==
    \A k \in Connections :
        /\ (ws_pc[k] = "accepting" /\ ws_pc'[k] = "open")
           => /\ websockets'[ws_client[k]] = k
              /\ ws_client[k] \in active_connections'
        /\ (ws_pc[k] = "open" /\ ws_pc'[k] = "closed")
           => \A c \in Recipients :
                  websockets[c] # k
                  => /\ websockets'[c] = websockets[c]
                     /\ c \in active_connections <=> c \in active_connections'

C36_DisconnectKeepsNewer == [][C36_Step]_vars

\* ------------------------------------------------------------------------
\* Properties of repeated start_polling calls
\* ------------------------------------------------------------------------
\* C37: whatever start_polling and stop_polling calls are made on one
\* poller, at most one start_polling call is in its loop at any time, and a
\* call that was running when stop_polling was called returns when its sleep
\* ends, also when start_polling was called again meanwhile.
C37_Step ==
    \A l \in stop_asked :
        (loop_pc[l] = "sleep" /\ loop_pc'[l] # "sleep")
        => loop_pc'[l] = "returned"

C37_SingleActiveLoop ==
    [](Cardinality(ActiveLoops) <= 1) /\ [][C37_Step]_vars

\* ------------------------------------------------------------------------
\* Properties of poll_for_new_report
\* ------------------------------------------------------------------------
\* C38: for every call time, every requested hour in 0..23 or none and every
\* requested minute in 0..59, the target time poll_for_new_report computes
\* is not earlier than the call time.
C38_TargetNotInPast ==
    target_time # NotComputed => ~Before(target_time, call_time)

\* ------------------------------------------------------------------------
\* Further properties of the router
\* ------------------------------------------------------------------------
\* C39: in one process_status_changes call at most one payload is built for
\* a change, a user and a channel, and it is sent once, also for a user who
\* holds a player-scoped and a team-scoped setting that both match the
\* change.
C39_OnePayloadPerTriple ==
    \A k \in SendKeys :
        /\ \A p \in Callers :
               Cardinality({i \in 1..Len(notifications_to_send[p]) :
                               SendKey(notifications_to_send[p][i]) = k}) <= 1
        /\ sends[k] <= 1

\* Payloads were built for user 1 and a change matched by both a
\* player-scoped and a team-scoped setting of theirs.
C39_Witness ==
    /\ psc_pc["poll"] = "sending"
    /\ \E c \in RoutedChanges :
           /\ SubjectOverrides(1, c) # {}
           /\ GroupOverrides(1, c) # {}
           /\ \E ch \in Range(Channels) : Built(c, 1, ch)

\* ------------------------------------------------------------------------
\* Properties of a fetcher constructed with max_retries = 0
\* ------------------------------------------------------------------------
\* C40: a fetcher constructed with max_retries = 0 makes one request per
\* _make_request call: a transient failure of that request ends the call
\* with FetcherError, no second request is issued.
C40_ZeroMeansNoRetry ==
    \A f \in Fetchers :
        /\ Len(requests[f]) <= 1
        /\ Transient(last_response[f])
           => /\ mr_out[f].kind = "FetcherError"
              /\ f_pc[f] # "request"

====
